---- MODULE Spec2Model ----
(***************************************************************************)
(* A state-machine model of src/js/main.js, the client-side layer of the   *)
(* portfolio site.  The controllers of main.js are independent of each     *)
(* other (they share only the DOM and one localStorage key), so each       *)
(* controller has its own variables, its own actions and its own           *)
(* specification; the variables of the controllers a specification does    *)
(* not exercise stay at their idle value.                                  *)
(*                                                                         *)
(* Strings of the program that are inspected character by character are    *)
(* sequences of one-character strings.  null is the string Null.           *)
(***************************************************************************)
EXTENDS Integers, Sequences, FiniteSets, TLC

VARIABLES
    \* ---- ThemeManager (main.js 201-294) and the browser around it
    storedTheme,        \* localStorage['portfolio-theme'], Null when absent
    systemDark,         \* matchMedia('(prefers-color-scheme: dark)').matches
    themeConstructed,   \* a ThemeManager exists on the current page
    currentTheme,       \* ThemeManager.currentTheme
    dataTheme,          \* documentElement's data-theme attribute
    iconClass,          \* className of the toggle buttons' <i>
    announcements,      \* live sr-only announcement nodes in the body
    bodyTransition,     \* document.body.style.transition is set
    transitionTimers,   \* pending 300 ms timers of toggleTheme
    everExplicit,       \* history: the key was present at first load, or a toggle happened
    userToggled,        \* history: the user has toggled the theme
    lastApplied,        \* history: the argument of the latest setTheme call
    themeLastOp,        \* history: the latest theme operation
    \* ---- one reveal-on-scroll controller (main.js 511-697) and its elements
    ctl,                \* which class this controller is
    hasIO,              \* 'IntersectionObserver' in window
    reducedMotion,      \* Utils.prefersReducedMotion()
    revealConstructed,  \* the controller's constructor has run
    intersecting,       \* per element: it now satisfies the visibility test
    ioObserved,         \* the targets the IntersectionObserver observes
    ioQueue,            \* entries the observer has queued for its callback
    observedElements,   \* ScrollAnimations.observedElements
    animatedSet,        \* StatsCounter.animatedStats / SkillBars.animatedBars
    applied,            \* per element: calls of the animation function (saturating)
    marked,             \* elements that carry the immediate DOM effect
    timers,             \* per element: pending deferred callbacks (saturating)
    deferredDone,       \* elements whose deferred effect has landed
    listening,          \* the fallback's scroll listener is registered
    inThrottle,         \* the throttle flag of that listener
    \* ---- TypingAnimation (main.js 451-509) and the visibility hook (1279-1315)
    texts,              \* TypingAnimation.texts, each phrase a sequence of characters
    currentTextIndex,   \* TypingAnimation.currentTextIndex
    currentCharIndex,   \* TypingAnimation.currentCharIndex
    isDeleting,         \* TypingAnimation.isDeleting
    isPaused,           \* TypingAnimation.isPaused
    textContent,        \* the typing element's textContent
    typeTimer,          \* a setTimeout(() => this.type(), ...) is pending
    typeDelay,          \* the delay that timer was given (0 when none)
    typingReduced,      \* Utils.prefersReducedMotion() at start()
    typingConstructed,  \* the TypingAnimation exists and is registered
    pageHidden,         \* document.hidden
    shown,              \* history: textContent after each type(), first MaxShown
    \* ---- ContactForm (main.js 699-886) and its form
    formBound,          \* the ContactForm's listeners are bound
    fieldValue,         \* per field: its value, a sequence of characters
    fieldError,         \* per field: it carries the class 'error'
    errorText,          \* per field: textContent of its .form-error element
    btnDisabled,        \* the submit button's disabled property
    btnLoading,         \* the submit button carries the class 'loading'
    btnTextOpacity,     \* style.opacity of the button's .btn-text ("" when never set)
    pending,            \* simulated submissions whose 1500 ms timer is pending
    toasts,             \* per stage: notifications in the document
    lastMessage,        \* history: the type of the latest showMessage call
    formLastOp,         \* history: the latest form operation
    \* ---- LazyLoader (main.js 938-993) and its images
    lazyHasIO,          \* 'IntersectionObserver' in window
    lazyConstructed,    \* the LazyLoader's constructor has run
    near,               \* per image: it is within the observer's margin of the viewport
    everNear,           \* history: the images that have been near since the page opened
    lazyObserved,       \* the images the IntersectionObserver observes
    lazyQueue,          \* entries the observer has queued for its callback
    dataSrc,            \* the images that carry a data-src attribute
    preloads,           \* per image: preloading Image objects not settled yet (saturating)
    srcAssigned,        \* the images whose src has been set from data-src
    loadedClass,        \* the images that carry the class 'loaded'
    errorClass,         \* the images that carry the class 'error'
    \* ---- PortfolioApp (main.js 1215-1330)
    readyState,         \* document.readyState
    appCreated,         \* new PortfolioApp() has run
    readyListener,      \* the constructor's DOMContentLoaded listener is registered
    typingElement,      \* #typing-text exists in the document
    isInitialized,      \* PortfolioApp.isInitialized
    cacheBuilt,         \* DOMCache objects built so far
    components,         \* the names registered in PortfolioApp.components
    built,              \* per name: components constructed so far
    warned,             \* the names logged by 'Failed to initialize <name>'
    initErrors,         \* 'Failed to initialize portfolio app' logs
    hooksInstalled,     \* runs of setupGlobalEvents so far
    lastThrown,         \* history: the constructors that threw in the latest init()
    lastRegistered,     \* history: the names the latest init() registered
    initRuns,           \* history: init() runs that got past the guard
    \* ---- NavigationManager (main.js 297-448) and the window around it
    navConstructed,     \* the NavigationManager's constructor has run
    navHasMenu,         \* both #nav-toggle and #nav-menu exist
    innerWidth,         \* window.innerWidth
    isMenuOpen,         \* NavigationManager.isMenuOpen
    menuActive,         \* navMenu carries the class 'active'
    toggleActive,       \* navToggle carries the class 'active'
    ariaExpanded,       \* navToggle's aria-expanded, Null while as authored
    ariaHidden,         \* navMenu's aria-hidden, Null while as authored
    bodyOverflow,       \* document.body.style.overflow
    focusOn,            \* which element holds the focus
    resizeTimer,        \* the debounced resize handler's timeout is pending
    scrollTimers,       \* per delay: pending setTimeout(smoothScrollTo) of handleNavClick
    crossedOpen,        \* history: the latest event was a resize across the mobile breakpoint, menu open
    navLastOp,          \* history: the latest navigation operation
    wasOpen,            \* history: isMenuOpen when that operation began
    lastScrollDelay,    \* history: the delay handleNavClick last gave setTimeout (-1 when none)
    \* ---- StatsCounter.animateCounter (main.js 610-629) on one stat element
    dataCount,          \* the element's data-count attribute, a sequence of characters
    counterStarted,     \* animateCounter has been called on the element
    counterTarget,      \* animateCounter's target
    increment,          \* animateCounter's increment
    current,            \* animateCounter's current
    counterText,        \* the element's textContent, a sequence of characters
    rafPending,         \* requestAnimationFrame(updateCounter) is pending
    frames,             \* history: runs of updateCounter so far
    \* ---- ContactForm.validateField (main.js 734-766) on one field of any kind
    fldRequired,        \* the field has the attribute 'required'
    fldType,            \* field.type || field.tagName.toLowerCase()
    fldName,            \* field.name
    fldValue,           \* field.value, a sequence of characters
    fldValidated,       \* validateField has run on the field
    fldValid,           \* what validateField returned
    fldErrorClass,      \* the field carries the class 'error'
    fldErrorText,       \* textContent of the field's .form-error element
    \* ---- BackToTop (main.js 889-935) and the window's scroll position
    topConstructed,     \* the BackToTop's constructor has run
    topHasButton,       \* #back-to-top exists
    scrollY,            \* window.scrollY
    showClass,          \* the button carries the class 'show'
    topAriaHidden,      \* the button's aria-hidden, Null while as authored
    topInThrottle,      \* the throttle flag of the button's scroll listener
    smoothScrolling,    \* a smooth scroll to the top is under way
    topLastOp,          \* history: the latest back-to-top operation
    \* ---- NavigationManager's scroll handler (main.js 349-355, 413-447)
    linksBound,         \* the NavigationManager's scroll listener is registered
    hasNavbar,          \* #navbar exists
    pageY,              \* window.scrollY
    activeSection,      \* NavigationManager.activeSection
    linkActive,         \* per nav link: it carries the class 'active'
    ariaCurrent,        \* per nav link: its aria-current, Null while as authored
    navbarScrolled,     \* the navbar carries the class 'scrolled'
    linksInThrottle,    \* the throttle flag of the scroll listener
    previousSection,    \* history: activeSection before the latest updateActiveLink
    rewrote,            \* history: the latest updateActiveLink rewrote the links
    linksLastOp,        \* history: the latest operation of the scroll handler
    \* ---- ContactForm.showMessage (main.js 830-877): each notification
    notifAttached,      \* per notification: it is in the document
    notifType,          \* per notification: 'success' or 'error', Null when unused
    notifTransform,     \* per notification: its style.transform
    notifTimers         \* per notification: its pending timers

themeVars == <<storedTheme, systemDark, themeConstructed, currentTheme, dataTheme,
               iconClass, announcements, bodyTransition, transitionTimers,
               everExplicit, userToggled, lastApplied, themeLastOp>>

revealVars == <<ctl, hasIO, reducedMotion, revealConstructed, intersecting, ioObserved,
                ioQueue, observedElements, animatedSet, applied, marked, timers,
                deferredDone, listening, inThrottle>>

typingVars == <<texts, currentTextIndex, currentCharIndex, isDeleting, isPaused,
                textContent, typeTimer, typeDelay, typingReduced, typingConstructed,
                pageHidden, shown>>

formVars == <<formBound, fieldValue, fieldError, errorText, btnDisabled, btnLoading,
              btnTextOpacity, pending, toasts, lastMessage, formLastOp>>

lazyVars == <<lazyHasIO, lazyConstructed, near, everNear, lazyObserved, lazyQueue,
              dataSrc, preloads, srcAssigned, loadedClass, errorClass>>

appVars == <<readyState, appCreated, readyListener, typingElement, isInitialized,
             cacheBuilt, components, built, warned, initErrors, hooksInstalled,
             lastThrown, lastRegistered, initRuns>>

navVars == <<navConstructed, navHasMenu, innerWidth, isMenuOpen, menuActive,
             toggleActive, ariaExpanded, ariaHidden, bodyOverflow, focusOn,
             resizeTimer, scrollTimers, crossedOpen, navLastOp, wasOpen,
             lastScrollDelay>>

\* The state toggleMobileMenu reads and writes.
menuVars == <<isMenuOpen, menuActive, toggleActive, ariaExpanded, ariaHidden,
              bodyOverflow, focusOn>>

counterVars == <<dataCount, counterStarted, counterTarget, increment, current,
                 counterText, rafPending, frames>>

fieldVars == <<fldRequired, fldType, fldName, fldValue, fldValidated, fldValid,
               fldErrorClass, fldErrorText>>

topVars == <<topConstructed, topHasButton, scrollY, showClass, topAriaHidden,
             topInThrottle, smoothScrolling, topLastOp>>

linksVars == <<linksBound, hasNavbar, pageY, activeSection, linkActive, ariaCurrent,
               navbarScrolled, linksInThrottle, previousSection, rewrote, linksLastOp>>

toastVars == <<notifAttached, notifType, notifTransform, notifTimers>>

vars ==
    <<themeVars, revealVars, typingVars, formVars,
      lazyVars, appVars, navVars, counterVars,
      fieldVars, topVars, linksVars, toastVars>>

NotTheme ==
    <<revealVars, typingVars, formVars, lazyVars,
      appVars, navVars, counterVars, fieldVars,
      topVars, linksVars, toastVars>>
NotReveal ==
    <<themeVars, typingVars, formVars, lazyVars,
      appVars, navVars, counterVars, fieldVars,
      topVars, linksVars, toastVars>>
NotTyping ==
    <<themeVars, revealVars, formVars, lazyVars,
      appVars, navVars, counterVars, fieldVars,
      topVars, linksVars, toastVars>>
NotForm ==
    <<themeVars, revealVars, typingVars, lazyVars,
      appVars, navVars, counterVars, fieldVars,
      topVars, linksVars, toastVars>>
NotLazy ==
    <<themeVars, revealVars, typingVars, formVars,
      appVars, navVars, counterVars, fieldVars,
      topVars, linksVars, toastVars>>
NotApp ==
    <<themeVars, revealVars, typingVars, formVars,
      lazyVars, navVars, counterVars, fieldVars,
      topVars, linksVars, toastVars>>
NotNav ==
    <<themeVars, revealVars, typingVars, formVars,
      lazyVars, appVars, counterVars, fieldVars,
      topVars, linksVars, toastVars>>
NotCounter ==
    <<themeVars, revealVars, typingVars, formVars,
      lazyVars, appVars, navVars, fieldVars,
      topVars, linksVars, toastVars>>
NotField ==
    <<themeVars, revealVars, typingVars, formVars,
      lazyVars, appVars, navVars, counterVars,
      topVars, linksVars, toastVars>>
NotTop ==
    <<themeVars, revealVars, typingVars, formVars,
      lazyVars, appVars, navVars, counterVars,
      fieldVars, linksVars, toastVars>>
NotLinks ==
    <<themeVars, revealVars, typingVars, formVars,
      lazyVars, appVars, navVars, counterVars,
      fieldVars, topVars, toastVars>>
NotToast ==
    <<themeVars, revealVars, typingVars, formVars,
      lazyVars, appVars, navVars, counterVars,
      fieldVars, topVars, linksVars>>

Null == "<null>"

Min(a, b) == IF a < b THEN a ELSE b

(***************************************************************************)
(* ThemeManager                                                            *)
(***************************************************************************)

\* Pending announcement nodes / transition timers the model keeps track of.
MaxAnnouncements == 2
MaxTransitionTimers == 2

\* What the key may hold when the page is first opened.
StoredAtStartup == {Null, "", "light", "dark", "blue"}

\* JavaScript truthiness of a string-or-null value.
Truthy(v) == v # Null /\ v # ""

getStoredTheme == storedTheme

SystemThemeOf(dark) == IF dark THEN "dark" ELSE "light"

getSystemTheme == SystemThemeOf(systemDark)

IconFor(theme) == IF theme = "dark" THEN "fas fa-sun" ELSE "fas fa-moon"

\* setTheme without the localStorage.setItem call.
setThemeNotPersisted(theme) ==
    /\ currentTheme' = theme
    /\ dataTheme' = theme
    /\ storedTheme' = storedTheme
    /\ iconClass' = IconFor(theme)
    /\ announcements' = announcements + 1
    /\ lastApplied' = theme

\* setTheme(theme): currentTheme, the attribute, the stored key, updateIcon,
\* announceThemeChange (one more live node, removed by a 1 s timer).
setTheme(theme) ==
    /\ currentTheme' = theme
    /\ dataTheme' = theme
    /\ storedTheme' = theme
    /\ iconClass' = IconFor(theme)
    /\ announcements' = announcements + 1
    /\ lastApplied' = theme

\* new ThemeManager(): currentTheme = getStoredTheme() || getSystemTheme(); init().
ThemeConstruct ==
    /\ UNCHANGED NotTheme
    /\ ~themeConstructed
    /\ announcements < MaxAnnouncements
    /\ setTheme(IF Truthy(getStoredTheme) THEN getStoredTheme ELSE getSystemTheme)
    /\ themeConstructed' = TRUE
    /\ themeLastOp' = "construct"
    /\ UNCHANGED <<systemDark, bodyTransition, transitionTimers, everExplicit, userToggled>>

ToggledTheme(theme) == IF theme = "dark" THEN "light" ELSE "dark"

\* A click (or Enter/Space) on a theme toggle button.
toggleTheme ==
    /\ UNCHANGED NotTheme
    /\ themeConstructed
    /\ announcements < MaxAnnouncements
    /\ transitionTimers < MaxTransitionTimers
    /\ setTheme(ToggledTheme(currentTheme))
    /\ bodyTransition' = TRUE
    /\ transitionTimers' = transitionTimers + 1
    /\ everExplicit' = TRUE
    /\ userToggled' = TRUE
    /\ themeLastOp' = "toggle"
    /\ UNCHANGED <<systemDark, themeConstructed>>

\* The 300 ms timer of toggleTheme.
TransitionTimeout ==
    /\ UNCHANGED NotTheme
    /\ transitionTimers > 0
    /\ transitionTimers' = transitionTimers - 1
    /\ bodyTransition' = FALSE
    /\ UNCHANGED <<storedTheme, systemDark, themeConstructed, currentTheme, dataTheme,
                   iconClass, announcements, everExplicit, userToggled, lastApplied,
                   themeLastOp>>

\* The 1 s timer of announceThemeChange.
AnnouncementTimeout ==
    /\ UNCHANGED NotTheme
    /\ announcements > 0
    /\ announcements' = announcements - 1
    /\ UNCHANGED <<storedTheme, systemDark, themeConstructed, currentTheme, dataTheme,
                   iconClass, bodyTransition, transitionTimers, everExplicit,
                   userToggled, lastApplied, themeLastOp>>

\* The listener's test: follow the OS only when nothing is stored.
FollowsSystemAlways(stored) == TRUE
FollowsSystem(stored) == ~Truthy(stored)

\* The OS colour scheme changes.  With a ThemeManager on the page its
\* 'change' listener runs; without one only the media query changes.
SystemThemeChange ==
    /\ UNCHANGED NotTheme
    /\ systemDark' = ~systemDark
    /\ IF themeConstructed /\ FollowsSystem(getStoredTheme)
       THEN /\ announcements < MaxAnnouncements
            /\ setTheme(SystemThemeOf(systemDark'))
       ELSE UNCHANGED <<currentTheme, dataTheme, storedTheme, iconClass,
                        announcements, lastApplied>>
    /\ themeLastOp' = "oschange"
    /\ UNCHANGED <<themeConstructed, bodyTransition, transitionTimers,
                   everExplicit, userToggled>>

\* The page is reloaded: the document and every script object are new,
\* localStorage and the OS setting stay.
ThemeReload ==
    /\ UNCHANGED NotTheme
    /\ themeConstructed
    /\ themeConstructed' = FALSE
    /\ currentTheme' = Null
    /\ dataTheme' = Null
    /\ iconClass' = Null
    /\ announcements' = 0
    /\ bodyTransition' = FALSE
    /\ transitionTimers' = 0
    /\ themeLastOp' = "reload"
    /\ UNCHANGED <<storedTheme, systemDark, everExplicit, userToggled, lastApplied>>

ThemeIdle ==
    /\ storedTheme = Null
    /\ systemDark = FALSE
    /\ themeConstructed = FALSE
    /\ currentTheme = Null
    /\ dataTheme = Null
    /\ iconClass = Null
    /\ announcements = 0
    /\ bodyTransition = FALSE
    /\ transitionTimers = 0
    /\ everExplicit = FALSE
    /\ userToggled = FALSE
    /\ lastApplied = Null
    /\ themeLastOp = "none"

ThemeInit ==
    /\ storedTheme \in StoredAtStartup
    /\ systemDark \in BOOLEAN
    /\ themeConstructed = FALSE
    /\ currentTheme = Null
    /\ dataTheme = Null
    /\ iconClass = Null
    /\ announcements = 0
    /\ bodyTransition = FALSE
    /\ transitionTimers = 0
    /\ everExplicit = (storedTheme # Null)
    /\ userToggled = FALSE
    /\ lastApplied = Null
    /\ themeLastOp = "none"

ThemeNext ==
    \/ ThemeConstruct
    \/ toggleTheme
    \/ TransitionTimeout
    \/ AnnouncementTimeout
    \/ SystemThemeChange
    \/ ThemeReload

(***************************************************************************)
(* ScrollAnimations, StatsCounter, SkillBars                               *)
(*                                                                         *)
(* One controller, of the class ctl, over the elements Elems.  An          *)
(* element's visibility (intersecting) is the environment's: scrolling and *)
(* layout change it.  The IntersectionObserver queues an entry for an      *)
(* observed target with the target's visibility at that moment and hands   *)
(* the queued entries to the callback in one batch; a target may have      *)
(* several entries in a batch.                                             *)
(***************************************************************************)

\* The elements of the controller's node list.
NumElems == 2
Elems == 1..NumElems

\* Entries the observer queues before its callback runs.
MaxQueue == 2

\* Where the per-element counters saturate.
MaxApplied == 2
MaxTimers == 2

Classes == {"ScrollAnimations", "StatsCounter", "SkillBars"}

\* The element-side state an animation function or a callback changes.
RevealState ==
    [applied |-> applied, marked |-> marked, timers |-> timers,
     ioObserved |-> ioObserved, observedElements |-> observedElements,
     animatedSet |-> animatedSet]

Bump(f, e, max) == [f EXCEPT ![e] = Min(f[e] + 1, max)]

\* ScrollAnimations.animateElement: the class now, one timer per staggered
\* child (one child per element here).
animateElement(st, e) ==
    [st EXCEPT !.applied = Bump(st.applied, e, MaxApplied),
               !.marked = st.marked \cup {e},
               !.timers = Bump(st.timers, e, MaxTimers)]

\* StatsCounter.animateCounter: the first updateCounter() writes textContent
\* at once, the following ones run from requestAnimationFrame.
animateCounter(st, e) ==
    [st EXCEPT !.applied = Bump(st.applied, e, MaxApplied),
               !.marked = st.marked \cup {e},
               !.timers = Bump(st.timers, e, MaxTimers)]

\* SkillBars.animateSkillBar: the width is set by a 200 ms timer.
animateSkillBar(st, e) ==
    [st EXCEPT !.applied = Bump(st.applied, e, MaxApplied),
               !.timers = Bump(st.timers, e, MaxTimers)]

animate(class, st, e) ==
    CASE class = "ScrollAnimations" -> animateElement(st, e)
      [] class = "StatsCounter" -> animateCounter(st, e)
      [] class = "SkillBars" -> animateSkillBar(st, e)

\* The observer callback's body for one entry.
ScrollAnimationsEntry(st, entry) ==
    IF entry.isIntersecting
    THEN [animateElement(st, entry.target) EXCEPT
            !.ioObserved = st.ioObserved \ {entry.target},
            !.observedElements = st.observedElements \ {entry.target}]
    ELSE st

\* StatsCounter's and SkillBars' callback body for one entry.
OnceEntry(class, st, entry) ==
    IF entry.isIntersecting /\ entry.target \notin st.animatedSet
    THEN [animate(class, st, entry.target) EXCEPT
            !.animatedSet = st.animatedSet \cup {entry.target},
            !.ioObserved = st.ioObserved \ {entry.target}]
    ELSE st

ObserverEntry(class, st, entry) ==
    IF class = "ScrollAnimations"
    THEN ScrollAnimationsEntry(st, entry)
    ELSE OnceEntry(class, st, entry)

\* entries.forEach(...)
RECURSIVE ObserverCallback(_, _, _)
ObserverCallback(class, st, entries) ==
    IF entries = <<>> THEN st
    ELSE ObserverCallback(class, ObserverEntry(class, st, Head(entries)), Tail(entries))

\* The throttled scroll handler's body for one element.
ScrollAnimationsTick(st, e) ==
    IF intersecting[e] THEN animateElement(st, e) ELSE st

OnceTick(class, st, e) ==
    IF intersecting[e] /\ e \notin st.animatedSet
    THEN [animate(class, st, e) EXCEPT !.animatedSet = st.animatedSet \cup {e}]
    ELSE st

FallbackElement(class, st, e) ==
    IF class = "ScrollAnimations" THEN ScrollAnimationsTick(st, e) ELSE OnceTick(class, st, e)

\* nodeList.forEach(...) over the elements e..NumElems, in document order.
RECURSIVE FallbackTick(_, _, _)
FallbackTick(class, st, e) ==
    IF e > NumElems THEN st
    ELSE FallbackTick(class, FallbackElement(class, st, e), e + 1)

SetRevealState(st) ==
    /\ applied' = st.applied
    /\ marked' = st.marked
    /\ timers' = st.timers
    /\ ioObserved' = st.ioObserved
    /\ observedElements' = st.observedElements
    /\ animatedSet' = st.animatedSet

\* An init() that never returns early.
initReturnsNever == FALSE

\* init()'s early return: !this.<elements> || Utils.prefersReducedMotion();
\* the element list exists.
initReturns == reducedMotion

\* The constructor and init(): nothing under reduced motion; the observer
\* when the platform has one; else the throttled scroll listener, which
\* ScrollAnimations alone also calls once at once.
RevealConstruct ==
    /\ UNCHANGED NotReveal
    /\ ~revealConstructed
    /\ revealConstructed' = TRUE
    /\ IF initReturns
       THEN UNCHANGED <<applied, marked, timers, ioObserved, observedElements,
                        animatedSet, listening, inThrottle>>
       ELSE IF hasIO
       THEN /\ ioObserved' = Elems
            /\ observedElements' = IF ctl = "ScrollAnimations" THEN Elems ELSE {}
            /\ UNCHANGED <<applied, marked, timers, animatedSet, listening, inThrottle>>
       ELSE /\ listening' = TRUE
            /\ IF ctl = "ScrollAnimations"
               THEN /\ SetRevealState(FallbackTick(ctl, RevealState, 1))
                    /\ inThrottle' = TRUE
               ELSE UNCHANGED <<applied, marked, timers, ioObserved, observedElements,
                                animatedSet, inThrottle>>
    /\ UNCHANGED <<ctl, hasIO, reducedMotion, intersecting, ioQueue, deferredDone>>

\* Scrolling or layout moves element e into or out of view.
VisibilityChange(e) ==
    /\ UNCHANGED NotReveal
    /\ intersecting' = [intersecting EXCEPT ![e] = ~intersecting[e]]
    /\ UNCHANGED <<ctl, hasIO, reducedMotion, revealConstructed, ioObserved, ioQueue,
                   observedElements, animatedSet, applied, marked, timers,
                   deferredDone, listening, inThrottle>>

\* The observer notices observed target e and queues an entry for it.
ObserverQueue(e) ==
    /\ UNCHANGED NotReveal
    /\ e \in ioObserved
    /\ Len(ioQueue) < MaxQueue
    /\ ioQueue' = Append(ioQueue, [target |-> e, isIntersecting |-> intersecting[e]])
    /\ UNCHANGED <<ctl, hasIO, reducedMotion, revealConstructed, intersecting, ioObserved,
                   observedElements, animatedSet, applied, marked, timers,
                   deferredDone, listening, inThrottle>>

\* The observer runs the callback on the queued entries.
ObserverDeliver ==
    /\ UNCHANGED NotReveal
    /\ ioQueue # <<>>
    /\ SetRevealState(ObserverCallback(ctl, RevealState, ioQueue))
    /\ ioQueue' = <<>>
    /\ UNCHANGED <<ctl, hasIO, reducedMotion, revealConstructed, intersecting,
                   deferredDone, listening, inThrottle>>

\* A window 'scroll' event reaches the throttled handler (Utils.throttle):
\* dropped while inThrottle, else the body runs and the flag is set.
RevealScroll ==
    /\ UNCHANGED NotReveal
    /\ listening
    /\ ~inThrottle
    /\ SetRevealState(FallbackTick(ctl, RevealState, 1))
    /\ inThrottle' = TRUE
    /\ UNCHANGED <<ctl, hasIO, reducedMotion, revealConstructed, intersecting, ioQueue,
                   deferredDone, listening>>

\* The throttle's 16 ms timer.
RevealThrottleTimeout ==
    /\ UNCHANGED NotReveal
    /\ inThrottle
    /\ inThrottle' = FALSE
    /\ UNCHANGED <<ctl, hasIO, reducedMotion, revealConstructed, intersecting, ioObserved,
                   ioQueue, observedElements, animatedSet, applied, marked, timers,
                   deferredDone, listening>>

\* A deferred callback of element e runs (a staggered child's class, the
\* next counter frame, the skill bar's width).
RevealTimer(e) ==
    /\ UNCHANGED NotReveal
    /\ timers[e] > 0
    /\ timers' = [timers EXCEPT ![e] = timers[e] - 1]
    /\ deferredDone' = deferredDone \cup {e}
    /\ UNCHANGED <<ctl, hasIO, reducedMotion, revealConstructed, intersecting, ioObserved,
                   ioQueue, observedElements, animatedSet, applied, marked,
                   listening, inThrottle>>

RevealRest ==
    /\ revealConstructed = FALSE
    /\ ioObserved = {}
    /\ ioQueue = <<>>
    /\ observedElements = {}
    /\ animatedSet = {}
    /\ applied = [e \in Elems |-> 0]
    /\ marked = {}
    /\ timers = [e \in Elems |-> 0]
    /\ deferredDone = {}
    /\ listening = FALSE
    /\ inThrottle = FALSE

RevealIdle ==
    /\ ctl = "ScrollAnimations"
    /\ hasIO = TRUE
    /\ reducedMotion = FALSE
    /\ intersecting = [e \in Elems |-> FALSE]
    /\ RevealRest

RevealInit ==
    /\ ctl \in Classes
    /\ hasIO \in BOOLEAN
    /\ reducedMotion \in BOOLEAN
    /\ intersecting \in [Elems -> BOOLEAN]
    /\ RevealRest

RevealNext ==
    \/ RevealConstruct
    \/ \E e \in Elems : VisibilityChange(e)
    \/ \E e \in Elems : ObserverQueue(e)
    \/ ObserverDeliver
    \/ RevealScroll
    \/ RevealThrottleTimeout
    \/ \E e \in Elems : RevealTimer(e)

(***************************************************************************)
(* TypingAnimation                                                         *)
(***************************************************************************)

typingSpeed == 100
typingDeleteSpeed == 50
typingPause == 2000

\* Phrases are over Chars, at most MaxPhraseLen long, at most MaxPhrases in a
\* list; the list of the specification's example is added.
Chars == {"a", "b"}
MaxPhraseLen == 2
MaxPhrases == 2
\* How many displayed texts the history keeps.
MaxShown == 10
\* How far currentCharIndex is followed.
MaxCharIndex == 4

SeqsUpTo(S, n) == UNION {[1..k -> S] : k \in 1..n}

\* The empty phrase is one of them.
Phrases == {<<>>} \cup SeqsUpTo(Chars, MaxPhraseLen)

GoJS == << <<"G", "o">>, <<"J", "S">> >>

TextLists == SeqsUpTo(Phrases, MaxPhrases) \cup {GoJS}

\* String.prototype.substring(0, n): n is clamped to 0..length.
substring0(str, n) ==
    SubSeq(str, 1, IF n < 0 THEN 0 ELSE IF n > Len(str) THEN Len(str) ELSE n)

\* The index that never moves on to the next phrase.
NextTextIndexStuck(i, n) == i
\* (currentTextIndex + 1) % texts.length
NextTextIndex(i, n) == (i + 1) % n

\* TypingAnimation.type(): one character more or less, the text written, the
\* phase switched at either end, and the next call scheduled.
type ==
    LET currentText == texts[currentTextIndex + 1]
        charIndex == IF isDeleting THEN currentCharIndex - 1 ELSE currentCharIndex + 1
        completed == ~isDeleting /\ charIndex = Len(currentText)
        emptied == ~completed /\ isDeleting /\ charIndex = 0
    IN  /\ currentCharIndex' = charIndex
        /\ textContent' = substring0(currentText, charIndex)
        /\ isPaused' = IF completed THEN TRUE ELSE isPaused
        /\ isDeleting' = IF completed THEN TRUE ELSE IF emptied THEN FALSE ELSE isDeleting
        /\ currentTextIndex' = IF emptied
                               THEN NextTextIndex(currentTextIndex, Len(texts))
                               ELSE currentTextIndex
        /\ typeTimer' = TRUE
        /\ typeDelay' = IF completed THEN typingPause
                        ELSE IF isDeleting THEN typingDeleteSpeed ELSE typingSpeed
        /\ shown' = IF Len(shown) < MaxShown
                    THEN Append(shown, substring0(currentText, charIndex))
                    ELSE shown

\* A reading that never reports the signal.
prefersReducedMotionNever == FALSE

\* Utils.prefersReducedMotion() as start() reads it.
prefersReducedMotion == typingReduced

\* new TypingAnimation(element): start() writes the first phrase under
\* reduced motion and calls type() otherwise.
TypingConstruct ==
    /\ UNCHANGED NotTyping
    /\ ~typingConstructed
    /\ typingConstructed' = TRUE
    /\ IF prefersReducedMotion
       THEN /\ textContent' = texts[1]
            /\ UNCHANGED <<currentTextIndex, currentCharIndex, isDeleting, isPaused,
                           typeTimer, typeDelay, shown>>
       ELSE type
    /\ UNCHANGED <<texts, typingReduced, pageHidden>>

\* The pending timer fires: type() runs again.
TypeTick ==
    /\ UNCHANGED NotTyping
    /\ typeTimer
    /\ currentCharIndex < MaxCharIndex
    /\ type
    /\ UNCHANGED <<texts, typingReduced, typingConstructed, pageHidden>>

\* 'visibilitychange' with document.hidden: pauseAnimations().
PageHide ==
    /\ UNCHANGED NotTyping
    /\ ~pageHidden
    /\ pageHidden' = TRUE
    /\ isPaused' = IF typingConstructed THEN TRUE ELSE isPaused
    /\ UNCHANGED <<texts, currentTextIndex, currentCharIndex, isDeleting, textContent,
                   typeTimer, typeDelay, typingReduced, typingConstructed, shown>>

\* 'visibilitychange' with the page visible again: resumeAnimations().
PageShow ==
    /\ UNCHANGED NotTyping
    /\ pageHidden
    /\ pageHidden' = FALSE
    /\ isPaused' = IF typingConstructed THEN FALSE ELSE isPaused
    /\ UNCHANGED <<texts, currentTextIndex, currentCharIndex, isDeleting, textContent,
                   typeTimer, typeDelay, typingReduced, typingConstructed, shown>>

TypingRest ==
    /\ currentTextIndex = 0
    /\ currentCharIndex = 0
    /\ isDeleting = FALSE
    /\ isPaused = FALSE
    /\ textContent = <<>>
    /\ typeTimer = FALSE
    /\ typeDelay = 0
    /\ typingConstructed = FALSE
    /\ pageHidden = FALSE
    /\ shown = <<>>

TypingIdle ==
    /\ texts = GoJS
    /\ typingReduced = FALSE
    /\ TypingRest

TypingInit ==
    /\ texts \in TextLists
    /\ typingReduced \in BOOLEAN
    /\ TypingRest

TypingNext ==
    \/ TypingConstruct
    \/ TypeTick
    \/ PageHide
    \/ PageShow

(***************************************************************************)
(* ContactForm                                                             *)
(*                                                                         *)
(* The form of the model has a required e-mail input, an optional input    *)
(* named 'phone' and a required textarea, each with a .form-error element, *)
(* and a submit button with a .btn-text label.                             *)
(***************************************************************************)

Fields == {"email", "phone", "message"}

FieldRequired(f) == f \in {"email", "message"}

\* field.type || field.tagName.toLowerCase()
FieldType(f) ==
    CASE f = "email" -> "email"
      [] f = "phone" -> "tel"
      [] f = "message" -> "textarea"

FieldName(f) == f

\* The values a user gives a field.
FieldValues(f) ==
    CASE f = "email" -> { <<>>, <<"a">>, <<"a", "@", "b", ".", "c">> }
      [] f = "phone" -> { <<>>, <<"a">>, <<"1">> }
      [] f = "message" -> { <<>>, <<" ">>, <<"a">> }

\* Simulated submissions pending at once, notifications kept track of.
MaxPending == 2
MaxToasts == 1

\* Characters of \\s and of trim() that a field's value can hold.
Whitespace == {" ", "\t"}
Digits == {"0", "1", "2", "3", "4", "5", "6", "7", "8", "9"}

\* String.prototype.trim
RECURSIVE trim(_)
trim(v) ==
    IF v = <<>> THEN v
    ELSE IF Head(v) \in Whitespace THEN trim(Tail(v))
    ELSE IF v[Len(v)] \in Whitespace THEN trim(SubSeq(v, 1, Len(v) - 1))
    ELSE v

\* /^[^\s@]+@[^\s@]+\.[^\s@]+$/ : an '@' at i and a '.' at j with a character
\* before i, between i and j and after j, and neither whitespace nor another
\* '@' anywhere else.
emailValidator(v) ==
    \E i, j \in 1..Len(v) :
        /\ v[i] = "@"
        /\ v[j] = "."
        /\ 1 < i
        /\ i + 1 < j
        /\ j < Len(v)
        /\ \A k \in (1..Len(v)) \ {i} : v[k] \notin Whitespace \cup {"@"}

\* A phone test that accepts every value.
phoneValidatorAny(v) == TRUE

\* !value || /^[\d\s\-\+\(\)]+$/
phoneValidator(v) ==
    \/ v = <<>>
    \/ \A k \in 1..Len(v) : v[k] \in Digits \cup Whitespace \cup {"-", "+", "(", ")"}

\* validateField's verdict on a field with these attributes holding raw:
\* <<isValid, errorMessage>>.
Verdict(isRequired, fieldType, fieldName, raw) ==
    LET value == trim(raw)
    IN  IF isRequired /\ value = <<>>
        THEN <<FALSE, "This field is required">>
        ELSE IF value # <<>> /\ fieldType = "email" /\ ~emailValidator(value)
        THEN <<FALSE, "Please enter a valid email address">>
        ELSE IF value # <<>> /\ fieldName = "phone" /\ ~phoneValidator(value)
        THEN <<FALSE, "Please enter a valid phone number">>
        ELSE <<TRUE, "">>

\* validateField's verdict on field f of the form holding raw.
FieldVerdict(f, raw) == Verdict(FieldRequired(f), FieldType(f), FieldName(f), raw)

validateField(f, raw) == FieldVerdict(f, raw)[1]

\* The fields handleSubmit validates: input[required], textarea[required].
SubmitFields == {f \in Fields : FieldRequired(f)}

\* showMessage(message, type): one more notification, appended off-screen;
\* its type only colours it (lastMessage keeps the latest one's type).
\* Notifications beyond MaxToasts are not kept track of.
ToastStages == {"added", "in", "out"}

ToastCount(t) == t["added"] + t["in"] + t["out"]

showMessage(t, ty) ==
    IF ToastCount(t) < MaxToasts
    THEN [t EXCEPT !["added"] = @ + 1]
    ELSE t

\* setLoadingState(button, isLoading)
setLoadingState(isLoading) ==
    /\ btnLoading' = isLoading
    /\ btnDisabled' = isLoading
    /\ btnTextOpacity' = IF isLoading THEN "0" ELSE "1"

\* A finally block that leaves the button as it is.
finallyNothing ==
    UNCHANGED <<btnLoading, btnDisabled, btnTextOpacity>>
\* handleSubmit's finally block.
finallyClearLoading == setLoadingState(FALSE)

\* The submit test that never aborts.
formInvalidNever(vals) == FALSE
\* handleSubmit's isFormValid, negated: some validated field fails.
formInvalid(vals) == \E f \in SubmitFields : ~validateField(f, vals[f])

\* new ContactForm(): bindEvents, setupValidation.
FormConstruct ==
    /\ UNCHANGED NotForm
    /\ ~formBound
    /\ formBound' = TRUE
    /\ UNCHANGED <<fieldValue, fieldError, errorText, btnDisabled, btnLoading,
                   btnTextOpacity, pending, toasts, lastMessage, formLastOp>>

\* The user edits field f: its 'input' listener runs validateField(f).
FieldInput(f, v) ==
    /\ UNCHANGED NotForm
    /\ fieldValue' = [fieldValue EXCEPT ![f] = v]
    /\ IF formBound
       THEN /\ fieldError' = [fieldError EXCEPT ![f] = ~FieldVerdict(f, v)[1]]
            /\ errorText' = [errorText EXCEPT ![f] = FieldVerdict(f, v)[2]]
            /\ formLastOp' = "input"
       ELSE UNCHANGED <<fieldError, errorText, formLastOp>>
    /\ UNCHANGED <<formBound, btnDisabled, btnLoading, btnTextOpacity, pending,
                   toasts, lastMessage>>

\* A 'submit' event reaches handleSubmit (which does not look at the
\* button's state): the required fields are validated; then either the error
\* message and return, or the loading state and a simulated submission.
handleSubmit ==
    /\ UNCHANGED NotForm
    /\ formBound
    /\ fieldError' = [f \in Fields |->
                        IF f \in SubmitFields
                        THEN ~FieldVerdict(f, fieldValue[f])[1] ELSE fieldError[f]]
    /\ errorText' = [f \in Fields |->
                        IF f \in SubmitFields
                        THEN FieldVerdict(f, fieldValue[f])[2] ELSE errorText[f]]
    /\ IF formInvalid(fieldValue)
       THEN /\ toasts' = showMessage(toasts, "error")
            /\ lastMessage' = "error"
            /\ formLastOp' = "abort"
            /\ UNCHANGED <<btnDisabled, btnLoading, btnTextOpacity, pending>>
       ELSE /\ pending < MaxPending
            /\ setLoadingState(TRUE)
            /\ pending' = pending + 1
            /\ formLastOp' = "start"
            /\ UNCHANGED <<toasts, lastMessage>>
    /\ UNCHANGED <<formBound, fieldValue>>

\* How a simulated submission settles: resolved and the success path runs
\* through; rejected; resolved and showMessage, form.reset() or clearErrors()
\* throws; resolved, showMessage throws and throws again in the catch block.
Outcomes == {"resolve", "reject", "throwShow", "throwReset", "throwClear", "throwTwice"}

Blank == [f \in Fields |-> <<>>]
NoError == [f \in Fields |-> FALSE]
NoText == [f \in Fields |-> ""]

\* A reset that leaves the fields as they are.
formResetNothing(vals) == vals

\* this.form.reset(): every field back to its default value, the empty one.
formReset(vals) == Blank

\* The 1500 ms timer of a simulated submission fires and the rest of
\* handleSubmit runs: try, catch, finally.
Settle(o) ==
    /\ UNCHANGED NotForm
    /\ pending > 0
    /\ pending' = pending - 1
    /\ toasts' =
         CASE o = "resolve" -> showMessage(toasts, "success")
           [] o = "reject" -> showMessage(toasts, "error")
           [] o = "throwShow" -> showMessage(toasts, "error")
           [] o \in {"throwReset", "throwClear"} ->
                showMessage(showMessage(toasts, "success"), "error")
           [] o = "throwTwice" -> toasts
    /\ lastMessage' =
         CASE o = "resolve" -> "success"
           [] o = "throwTwice" -> lastMessage
           [] OTHER -> "error"
    /\ fieldValue' = IF o \in {"resolve", "throwClear"} THEN formReset(fieldValue)
                     ELSE fieldValue
    /\ fieldError' = IF o = "resolve" THEN NoError ELSE fieldError
    /\ errorText' = IF o = "resolve" THEN NoText ELSE errorText
    /\ finallyClearLoading
    /\ formLastOp' = o
    /\ UNCHANGED formBound

\* A notification's timers, in the order they fire: 100 ms (slide in),
\* 5000 ms (slide out), 300 ms later (removed from the document).
ToastTimer ==
    /\ UNCHANGED NotForm
    /\ \/ /\ toasts["added"] > 0
          /\ toasts' = [toasts EXCEPT !["added"] = @ - 1, !["in"] = @ + 1]
       \/ /\ toasts["in"] > 0
          /\ toasts' = [toasts EXCEPT !["in"] = @ - 1, !["out"] = @ + 1]
       \/ /\ toasts["out"] > 0
          /\ toasts' = [toasts EXCEPT !["out"] = @ - 1]
    /\ UNCHANGED <<formBound, fieldValue, fieldError, errorText, btnDisabled,
                   btnLoading, btnTextOpacity, pending, lastMessage, formLastOp>>

FormRest ==
    /\ formBound = FALSE
    /\ fieldError = NoError
    /\ errorText = NoText
    /\ btnDisabled = FALSE
    /\ btnLoading = FALSE
    /\ btnTextOpacity = ""
    /\ pending = 0
    /\ toasts = [st \in ToastStages |-> 0]
    /\ lastMessage = "none"
    /\ formLastOp = "none"

FormIdle ==
    /\ fieldValue = Blank
    /\ FormRest

FormInit ==
    /\ fieldValue = Blank
    /\ FormRest

FormNext ==
    \/ FormConstruct
    \/ \E f \in Fields : \E v \in FieldValues(f) : FieldInput(f, v)
    \/ handleSubmit
    \/ \E o \in Outcomes : Settle(o)
    \/ ToastTimer

(***************************************************************************)
(* LazyLoader                                                              *)
(*                                                                         *)
(* The images are those that carry data-src when the page opens.  The      *)
(* observer (rootMargin 50px) queues entries and hands them over as for    *)
(* the reveal controllers.                                                 *)
(***************************************************************************)

NumImages == 2
Images == 1..NumImages

\* Entries queued before the callback runs, preloads counted per image.
MaxLazyQueue == 2
MaxPreloads == 2

LazyState == [preloads |-> preloads, lazyObserved |-> lazyObserved]

\* loadImage(img): nothing without data-src, else a new Image() preloads it.
loadImage(st, i) ==
    IF i \notin dataSrc
    THEN st
    ELSE [st EXCEPT !.preloads = [@ EXCEPT ![i] = Min(@ + 1, MaxPreloads)]]

\* A callback that loads whatever entry it is given.
LazyEntryAny(st, entry) ==
    [loadImage(st, entry.target) EXCEPT !.lazyObserved = @ \ {entry.target}]

\* The observer callback's body for one entry.
LazyEntry(st, entry) ==
    IF entry.isIntersecting
    THEN [loadImage(st, entry.target) EXCEPT !.lazyObserved = @ \ {entry.target}]
    ELSE st

RECURSIVE LazyCallback(_, _)
LazyCallback(st, entries) ==
    IF entries = <<>> THEN st
    ELSE LazyCallback(LazyEntry(st, Head(entries)), Tail(entries))

\* fallbackLoading: this.images.forEach(img => this.loadImage(img)).
RECURSIVE fallbackLoading(_, _)
fallbackLoading(st, i) ==
    IF i > NumImages THEN st ELSE fallbackLoading(loadImage(st, i), i + 1)

\* new LazyLoader(): the observer on every image, or fallbackLoading.
LazyConstruct ==
    /\ UNCHANGED NotLazy
    /\ ~lazyConstructed
    /\ lazyConstructed' = TRUE
    /\ IF lazyHasIO
       THEN /\ lazyObserved' = Images
            /\ UNCHANGED preloads
       ELSE /\ preloads' = fallbackLoading(LazyState, 1).preloads
            /\ UNCHANGED lazyObserved
    /\ UNCHANGED <<lazyHasIO, near, everNear, lazyQueue, dataSrc, srcAssigned,
                   loadedClass, errorClass>>

\* Scrolling or layout moves image i into or out of the margin.
NearChange(i) ==
    /\ UNCHANGED NotLazy
    /\ near' = [near EXCEPT ![i] = ~near[i]]
    /\ everNear' = IF near'[i] THEN everNear \cup {i} ELSE everNear
    /\ UNCHANGED <<lazyHasIO, lazyConstructed, lazyObserved, lazyQueue, dataSrc,
                   preloads, srcAssigned, loadedClass, errorClass>>

\* The observer notices observed image i and queues an entry for it.
LazyObserverQueue(i) ==
    /\ UNCHANGED NotLazy
    /\ i \in lazyObserved
    /\ Len(lazyQueue) < MaxLazyQueue
    /\ lazyQueue' = Append(lazyQueue, [target |-> i, isIntersecting |-> near[i]])
    /\ UNCHANGED <<lazyHasIO, lazyConstructed, near, everNear, lazyObserved, dataSrc,
                   preloads, srcAssigned, loadedClass, errorClass>>

\* The observer runs the callback on the queued entries.
LazyObserverDeliver ==
    /\ UNCHANGED NotLazy
    /\ lazyQueue # <<>>
    /\ LET st == LazyCallback(LazyState, lazyQueue)
       IN  /\ preloads' = st.preloads
           /\ lazyObserved' = st.lazyObserved
    /\ lazyQueue' = <<>>
    /\ UNCHANGED <<lazyHasIO, lazyConstructed, near, everNear, dataSrc, srcAssigned,
                   loadedClass, errorClass>>

\* A preloading Image of image i settles: onload sets src, removes data-src
\* and adds 'loaded'; onerror adds 'error'.
PreloadSettle(i, ok) ==
    /\ UNCHANGED NotLazy
    /\ preloads[i] > 0
    /\ preloads' = [preloads EXCEPT ![i] = @ - 1]
    /\ IF ok
       THEN /\ srcAssigned' = srcAssigned \cup {i}
            /\ dataSrc' = dataSrc \ {i}
            /\ loadedClass' = loadedClass \cup {i}
            /\ UNCHANGED errorClass
       ELSE /\ errorClass' = errorClass \cup {i}
            /\ UNCHANGED <<srcAssigned, dataSrc, loadedClass>>
    /\ UNCHANGED <<lazyHasIO, lazyConstructed, near, everNear, lazyObserved, lazyQueue>>

LazyRest ==
    /\ lazyConstructed = FALSE
    /\ lazyObserved = {}
    /\ lazyQueue = <<>>
    /\ dataSrc = Images
    /\ preloads = [i \in Images |-> 0]
    /\ srcAssigned = {}
    /\ loadedClass = {}
    /\ errorClass = {}

LazyIdle ==
    /\ lazyHasIO = TRUE
    /\ near = [i \in Images |-> FALSE]
    /\ everNear = {}
    /\ LazyRest

LazyInit ==
    /\ lazyHasIO \in BOOLEAN
    /\ near \in [Images -> BOOLEAN]
    /\ everNear = {i \in Images : near[i]}
    /\ LazyRest

LazyNext ==
    \/ LazyConstruct
    \/ \E i \in Images : NearChange(i)
    \/ \E i \in Images : LazyObserverQueue(i)
    \/ LazyObserverDeliver
    \/ \E i \in Images : \E ok \in BOOLEAN : PreloadSettle(i, ok)

(***************************************************************************)
(* PortfolioApp                                                            *)
(*                                                                         *)
(* init() is synchronous, so it is one step; which constructors throw in   *)
(* it is the step's input.                                                 *)
(***************************************************************************)

\* initializeComponents' list, in its order.
ComponentList ==
    <<"errorHandler", "performanceMonitor", "accessibilityEnhancer", "themeManager",
      "navigationManager", "scrollAnimations", "statsCounter", "skillBars",
      "contactForm", "backToTop", "lazyLoader">>

Listed == {ComponentList[k] : k \in 1..Len(ComponentList)}

Constructors == Listed \cup {"typingAnimation", "domCache"}

\* Constructors that throw in one init(), and init() runs past the guard.
MaxThrows == 1
MaxRuns == 2

ThrowSets == {T \in SUBSET Constructors : Cardinality(T) <= MaxThrows}

\* What an init() run leaves behind.
AppState ==
    [isInitialized |-> isInitialized, cacheBuilt |-> cacheBuilt,
     components |-> components, built |-> built, warned |-> warned,
     initErrors |-> initErrors, hooksInstalled |-> hooksInstalled,
     lastRegistered |-> {}]

\* components.forEach(...) from the k-th entry on: each construction in its
\* own try/catch, a failure warned about and skipped.
RECURSIVE constructListed(_, _, _)
constructListed(st, T, k) ==
    IF k > Len(ComponentList) THEN st
    ELSE LET name == ComponentList[k]
         IN  constructListed(
                 IF name \in T
                 THEN [st EXCEPT !.warned = @ \cup {name}]
                 ELSE [st EXCEPT !.components = @ \cup {name},
                                 !.lastRegistered = @ \cup {name},
                                 !.built = [@ EXCEPT ![name] = @ + 1]],
                 T, k + 1)

\* The catch block of init().
initFailed(st) == [st EXCEPT !.initErrors = @ + 1]

\* setupGlobalEvents(), then isInitialized = true.
initFinish(st) ==
    [st EXCEPT !.hooksInstalled = @ + 1, !.isInitialized = TRUE]

\* init() past its guard, the constructors in T throwing: the DOM cache, the
\* listed components, the typing effect (not in a try/catch of its own),
\* the global events; any exception that gets out ends in the catch block.
initBody(st, T) ==
    IF "domCache" \in T
    THEN initFailed(st)
    ELSE LET listed == constructListed([st EXCEPT !.cacheBuilt = @ + 1], T, 1)
         IN  IF ~typingElement
             THEN initFinish(listed)
             ELSE IF "typingAnimation" \in T
             THEN initFailed(listed)
             ELSE initFinish(
                      [listed EXCEPT !.components = @ \cup {"typingAnimation"},
                                     !.lastRegistered = @ \cup {"typingAnimation"},
                                     !.built = [@ EXCEPT !["typingAnimation"] =
                                                            @ + 1]])

\* PortfolioApp.init(), the constructors in T throwing if they are reached.
init(T) ==
    IF isInitialized
    THEN UNCHANGED <<isInitialized, cacheBuilt, components, built, warned, initErrors,
                     hooksInstalled, lastThrown, lastRegistered, initRuns>>
    ELSE LET st == initBody(AppState, T)
         IN  /\ initRuns < MaxRuns
             /\ isInitialized' = st.isInitialized
             /\ cacheBuilt' = st.cacheBuilt
             /\ components' = st.components
             /\ built' = st.built
             /\ warned' = st.warned
             /\ initErrors' = st.initErrors
             /\ hooksInstalled' = st.hooksInstalled
             /\ lastRegistered' = st.lastRegistered
             /\ lastThrown' = T
             /\ initRuns' = initRuns + 1

\* new PortfolioApp(): init() now, or on DOMContentLoaded while the document
\* is still loading.
AppConstruct(T) ==
    /\ UNCHANGED NotApp
    /\ ~appCreated
    /\ appCreated' = TRUE
    /\ IF readyState = "loading"
       THEN /\ readyListener' = TRUE
            /\ UNCHANGED <<isInitialized, cacheBuilt, components, built, warned,
                           initErrors, hooksInstalled, lastThrown, lastRegistered,
                           initRuns>>
       ELSE /\ init(T)
            /\ UNCHANGED readyListener
    /\ UNCHANGED <<readyState, typingElement>>

\* The document finishes loading: DOMContentLoaded runs the listener.
DOMContentLoaded(T) ==
    /\ UNCHANGED NotApp
    /\ readyState = "loading"
    /\ readyState' = "interactive"
    /\ IF readyListener
       THEN init(T)
       ELSE UNCHANGED <<isInitialized, cacheBuilt, components, built, warned,
                        initErrors, hooksInstalled, lastThrown, lastRegistered, initRuns>>
    /\ UNCHANGED <<appCreated, readyListener, typingElement>>

\* A manual window.PortfolioApp.init().
ManualInit(T) ==
    /\ UNCHANGED NotApp
    /\ appCreated
    /\ init(T)
    /\ UNCHANGED <<readyState, appCreated, readyListener, typingElement>>

AppRest ==
    /\ appCreated = FALSE
    /\ readyListener = FALSE
    /\ isInitialized = FALSE
    /\ cacheBuilt = 0
    /\ components = {}
    /\ built = [c \in Constructors \ {"domCache"} |-> 0]
    /\ warned = {}
    /\ initErrors = 0
    /\ hooksInstalled = 0
    /\ lastThrown = {}
    /\ lastRegistered = {}
    /\ initRuns = 0

AppIdle ==
    /\ readyState = "loading"
    /\ typingElement = TRUE
    /\ AppRest

AppInit ==
    /\ readyState \in {"loading", "interactive"}
    /\ typingElement \in BOOLEAN
    /\ AppRest

AppNext ==
    \/ \E T \in ThrowSets : AppConstruct(T)
    \/ \E T \in ThrowSets : DOMContentLoaded(T)
    \/ \E T \in ThrowSets : ManualInit(T)

(***************************************************************************)
(* NavigationManager                                                       *)
(*                                                                         *)
(* The mobile menu, the debounced resize handler and the nav links.  A     *)
(* click on the toggle or inside the menu also reaches the document's      *)
(* click listener, which leaves it alone (the target is contained).        *)
(***************************************************************************)

\* CONFIG.BREAKPOINTS
mobile == 480
tablet == 768
desktop == 1024

\* CONFIG.TIMING.debounceDelay and the delay of handleNavClick with the menu open.
debounceDelay == 100
menuCloseDelay == 300

\* The widths the window is resized between.
Widths == {320, 480, 481, 1280}

\* The delays handleNavClick chooses between.
Delays == {0, menuCloseDelay}

\* Pending smooth-scroll timers the model keeps track of.
MaxScrollTimers == 2

\* What a nav link points at: a section of the page, a hash with no
\* element behind it, or another page.
LinkKinds == {"section", "missing", "page"}

\* A size test that reports every window as mobile.
getViewportSizeNarrow(width) == "mobile"

getViewportSize(width) ==
    IF width <= mobile THEN "mobile"
    ELSE IF width <= tablet THEN "tablet"
    ELSE IF width <= desktop THEN "desktop"
    ELSE "large"

BoolString(b) == IF b THEN "true" ELSE "false"

MenuState ==
    [isMenuOpen |-> isMenuOpen, menuActive |-> menuActive,
     toggleActive |-> toggleActive, ariaExpanded |-> ariaExpanded,
     ariaHidden |-> ariaHidden, bodyOverflow |-> bodyOverflow, focusOn |-> focusOn]

\* A body whose scrolling is never suspended.
overflowNever(open) == ""

\* document.body.style.overflow = this.isMenuOpen ? 'hidden' : ''
overflowWhen(open) == IF open THEN "hidden" ELSE ""

toggleMobileMenu(st) ==
    LET open == ~st.isMenuOpen
    IN  [isMenuOpen |-> open,
         menuActive |-> open,
         toggleActive |-> open,
         ariaExpanded |-> BoolString(open),
         ariaHidden |-> BoolString(~open),
         bodyOverflow |-> overflowWhen(open),
         focusOn |-> IF open THEN "navMenu" ELSE "navToggle"]

\* A close that leaves the menu as it is.
closeNothing(st) == st

closeMobileMenu(st) ==
    IF st.isMenuOpen THEN toggleMobileMenu(st) ELSE st

\* The function bindEvents hands to Utils.debounce.
handleResize(st, width) ==
    IF getViewportSize(width) # "mobile" /\ st.isMenuOpen
    THEN closeMobileMenu(st)
    ELSE st

SetMenuState(st) ==
    /\ isMenuOpen' = st.isMenuOpen
    /\ menuActive' = st.menuActive
    /\ toggleActive' = st.toggleActive
    /\ ariaExpanded' = st.ariaExpanded
    /\ ariaHidden' = st.ariaHidden
    /\ bodyOverflow' = st.bodyOverflow
    /\ focusOn' = st.focusOn

PendingScrolls == scrollTimers[0] + scrollTimers[menuCloseDelay]

\* new NavigationManager(): isMenuOpen false, the listeners bound.
NavConstruct ==
    /\ UNCHANGED NotNav
    /\ ~navConstructed
    /\ navConstructed' = TRUE
    /\ isMenuOpen' = FALSE
    /\ navLastOp' = "construct"
    /\ wasOpen' = FALSE
    /\ UNCHANGED <<navHasMenu, innerWidth, menuActive, toggleActive, ariaExpanded,
                   ariaHidden, bodyOverflow, focusOn, resizeTimer, scrollTimers,
                   crossedOpen, lastScrollDelay>>

\* The body of the document's keydown listener for Escape, and of its click
\* listener once the target tests have passed.
closeIfOpen(st) ==
    IF navHasMenu /\ st.isMenuOpen THEN closeMobileMenu(st) ELSE st

\* this.navMenu.contains(e.target), for a click that lands on the toggle
\* (or inside it), inside the menu, or anywhere else in the document.
menuContains(target) == target = "menu"

\* A toggle that holds no click target.
toggleContainsNothing(target) == FALSE

\* this.navToggle.contains(e.target)
toggleContains(target) == target = "toggle"

\* The document's click listener, reached by every click as it bubbles.
documentClick(st, target) ==
    IF ~menuContains(target) /\ ~toggleContains(target) THEN closeIfOpen(st) ELSE st

\* A click on the toggle: the toggle's own click listener runs, then the
\* document's.
ToggleClick ==
    /\ UNCHANGED NotNav
    /\ navConstructed /\ navHasMenu
    /\ SetMenuState(documentClick(toggleMobileMenu(MenuState), "toggle"))
    /\ navLastOp' = "toggle"
    /\ wasOpen' = isMenuOpen
    /\ crossedOpen' = FALSE
    /\ UNCHANGED <<navConstructed, navHasMenu, innerWidth, resizeTimer, scrollTimers,
                   lastScrollDelay>>

\* Enter or Space on the toggle: its keydown listener toggles; the
\* document's keydown listener acts on Escape only.
ToggleKey ==
    /\ UNCHANGED NotNav
    /\ navConstructed /\ navHasMenu
    /\ SetMenuState(toggleMobileMenu(MenuState))
    /\ navLastOp' = "toggleKey"
    /\ wasOpen' = isMenuOpen
    /\ crossedOpen' = FALSE
    /\ UNCHANGED <<navConstructed, navHasMenu, innerWidth, resizeTimer, scrollTimers,
                   lastScrollDelay>>

EscapeKey ==
    /\ UNCHANGED NotNav
    /\ navConstructed
    /\ SetMenuState(closeIfOpen(MenuState))
    /\ navLastOp' = "escape"
    /\ wasOpen' = isMenuOpen
    /\ crossedOpen' = FALSE
    /\ UNCHANGED <<navConstructed, navHasMenu, innerWidth, resizeTimer, scrollTimers,
                   lastScrollDelay>>

\* A click outside the menu and the toggle.
OutsideClick ==
    /\ UNCHANGED NotNav
    /\ navConstructed
    /\ SetMenuState(documentClick(MenuState, "outside"))
    /\ navLastOp' = "outside"
    /\ wasOpen' = isMenuOpen
    /\ crossedOpen' = FALSE
    /\ UNCHANGED <<navConstructed, navHasMenu, innerWidth, resizeTimer, scrollTimers,
                   lastScrollDelay>>

\* A click inside the menu that is not on a link.
InsideClick ==
    /\ UNCHANGED NotNav
    /\ navConstructed /\ navHasMenu
    /\ SetMenuState(documentClick(MenuState, "menu"))
    /\ navLastOp' = "inside"
    /\ wasOpen' = isMenuOpen
    /\ crossedOpen' = FALSE
    /\ UNCHANGED <<navConstructed, navHasMenu, innerWidth, resizeTimer, scrollTimers,
                   lastScrollDelay>>

\* handleNavClick on a link of kind k: for a section link the menu is closed,
\* then the delay is read from isMenuOpen and the scroll is scheduled.
handleNavClick(k) ==
    IF k = "section"
    THEN LET st == closeMobileMenu(MenuState)
             delay == IF st.isMenuOpen THEN menuCloseDelay ELSE 0
         IN  /\ SetMenuState(st)
             /\ scrollTimers' = [scrollTimers EXCEPT ![delay] = @ + 1]
             /\ lastScrollDelay' = delay
    ELSE UNCHANGED <<menuVars, scrollTimers, lastScrollDelay>>

NavClick(k) ==
    /\ UNCHANGED NotNav
    /\ navConstructed
    /\ PendingScrolls < MaxScrollTimers
    /\ handleNavClick(k)
    /\ navLastOp' = IF k = "section" THEN "navClick" ELSE "navClickAway"
    /\ wasOpen' = isMenuOpen
    /\ crossedOpen' = FALSE
    /\ UNCHANGED <<navConstructed, navHasMenu, innerWidth, resizeTimer>>

\* A timer of handleNavClick fires: Utils.smoothScrollTo(targetSection, 70).
ScrollTimeout(d) ==
    /\ UNCHANGED NotNav
    /\ scrollTimers[d] > 0
    /\ scrollTimers' = [scrollTimers EXCEPT ![d] = @ - 1]
    /\ navLastOp' = "smoothScroll"
    /\ wasOpen' = isMenuOpen
    /\ UNCHANGED <<navConstructed, navHasMenu, innerWidth, menuVars, resizeTimer,
                   crossedOpen, lastScrollDelay>>

\* A resize event: the window has width w and the debounced handler drops
\* its pending timeout and sets a new one.
Resize(w) ==
    /\ UNCHANGED NotNav
    /\ w # innerWidth
    /\ innerWidth' = w
    /\ resizeTimer' = navConstructed
    /\ crossedOpen' =
          (isMenuOpen /\ (getViewportSize(innerWidth) = "mobile") # (getViewportSize(w) = "mobile"))
    /\ navLastOp' = "resize"
    /\ wasOpen' = isMenuOpen
    /\ UNCHANGED <<navConstructed, navHasMenu, menuVars, scrollTimers, lastScrollDelay>>

\* The debounce timeout fires, debounceDelay after the latest resize event.
ResizeTimeout ==
    /\ UNCHANGED NotNav
    /\ resizeTimer
    /\ resizeTimer' = FALSE
    /\ SetMenuState(handleResize(MenuState, innerWidth))
    /\ navLastOp' = "resizeTimeout"
    /\ wasOpen' = isMenuOpen
    /\ UNCHANGED <<navConstructed, navHasMenu, innerWidth, scrollTimers, crossedOpen,
                   lastScrollDelay>>

NavRest ==
    /\ navConstructed = FALSE
    /\ isMenuOpen = FALSE
    /\ menuActive = FALSE
    /\ toggleActive = FALSE
    /\ ariaExpanded = Null
    /\ ariaHidden = Null
    /\ bodyOverflow = ""
    /\ focusOn = "body"
    /\ resizeTimer = FALSE
    /\ scrollTimers = [d \in Delays |-> 0]
    /\ crossedOpen = FALSE
    /\ navLastOp = "none"
    /\ wasOpen = FALSE
    /\ lastScrollDelay = -1

NavIdle ==
    /\ navHasMenu = TRUE
    /\ innerWidth = 1280
    /\ NavRest

NavInit ==
    /\ navHasMenu \in BOOLEAN
    /\ innerWidth \in Widths
    /\ NavRest

NavNext ==
    \/ NavConstruct
    \/ ToggleClick
    \/ ToggleKey
    \/ EscapeKey
    \/ OutsideClick
    \/ InsideClick
    \/ \E k \in LinkKinds : NavClick(k)
    \/ \E d \in Delays : ScrollTimeout(d)
    \/ \E w \in Widths : Resize(w)
    \/ ResizeTimeout

(***************************************************************************)
(* StatsCounter.animateCounter                                             *)
(*                                                                         *)
(* One call of animateCounter on an element whose data-count is a          *)
(* non-negative integer in decimal, followed frame by frame.               *)
(***************************************************************************)

\* The largest data-count considered.
MaxTarget == 260

\* The divisor of animateCounter's increment.
incrementSteps == 100

DecimalDigits == <<"0", "1", "2", "3", "4", "5", "6", "7", "8", "9">>

DigitValue(c) == (CHOOSE k \in 1..10 : DecimalDigits[k] = c) - 1

\* String(n) for a non-negative integer n.
RECURSIVE toString(_)
toString(n) ==
    IF n < 10 THEN <<DecimalDigits[n + 1]>>
    ELSE Append(toString(n \div 10), DecimalDigits[(n % 10) + 1])

\* parseInt(s, 10) for a non-empty string of decimal digits.
RECURSIVE parseInt(_)
parseInt(s) ==
    IF s = <<>> THEN 0
    ELSE 10 * parseInt(SubSeq(s, 1, Len(s) - 1)) + DigitValue(s[Len(s)])

\* Math.ceil(a / b) for a >= 0, b > 0.
ceilDiv(a, b) == (a + b - 1) \div b

\* A last frame that shows the sum it reached.
clampNothing(sum, target) == sum

\* current = target, once current >= target.
clampToTarget(sum, target) == target

\* updateCounter() with current = cur: add the increment; at or past the
\* target show the target and stop, otherwise show the sum and ask for
\* another frame.
updateCounter(cur, inc, target) ==
    LET sum == cur + inc
    IN  /\ frames' = frames + 1
        /\ IF sum >= target
           THEN /\ current' = clampToTarget(sum, target)
                /\ counterText' = toString(current')
                /\ rafPending' = FALSE
           ELSE /\ current' = sum
                /\ counterText' = toString(sum)
                /\ rafPending' = TRUE

\* animateCounter(element): target, increment, current = 0, and the first
\* updateCounter().
CounterStart ==
    /\ UNCHANGED NotCounter
    /\ ~counterStarted
    /\ counterStarted' = TRUE
    /\ counterTarget' = parseInt(dataCount)
    /\ increment' = ceilDiv(counterTarget', incrementSteps)
    /\ updateCounter(0, increment', counterTarget')
    /\ UNCHANGED dataCount

\* The animation frame arrives: updateCounter() again.
CounterFrame ==
    /\ UNCHANGED NotCounter
    /\ rafPending
    /\ updateCounter(current, increment, counterTarget)
    /\ UNCHANGED <<dataCount, counterStarted, counterTarget, increment>>

CounterRest ==
    /\ counterStarted = FALSE
    /\ counterTarget = 0
    /\ increment = 0
    /\ current = 0
    /\ counterText = <<>>
    /\ rafPending = FALSE
    /\ frames = 0

CounterIdle ==
    /\ dataCount = <<"0">>
    /\ CounterRest

CounterInit ==
    /\ dataCount \in {toString(n) : n \in 0..MaxTarget}
    /\ CounterRest

CounterNext ==
    \/ CounterStart
    \/ CounterFrame

(***************************************************************************)
(* ContactForm.validateField                                               *)
(*                                                                         *)
(* validateField on one field, whatever its attributes and value.          *)
(***************************************************************************)

\* The longest value built from ValueChars.
MaxValueLen == 5

ValueChars == {"a", "@", ".", " ", "1"}

UserAtExample ==
    <<"u", "s", "e", "r", "@", "e", "x", "a", "m", "p", "l", "e", ".", "c", "o", "m">>

PhoneAbc == <<"a", "b", "c">>

PhoneWithSymbols ==
    <<"+", "1", " ", "(", "5", "5", "5", ")", " ", "1", "2", "3", "-", "4", "5", "6", "7">>

\* The values a field is given: every string over ValueChars up to
\* MaxValueLen, and some chosen ones.
Values ==
    {<<>>} \cup SeqsUpTo(ValueChars, MaxValueLen)
    \cup {UserAtExample, PhoneAbc, PhoneWithSymbols,
          <<"1", "\t", "1">>, <<"\t">>, <<" ", "a", "@", "a", ".", "a", " ">>,
          <<"a", "@", "a", ".", "a", ".", "a">>, <<"1", "-", "1">>}

FieldTypes == {"email", "text"}
FieldNames == {"phone", "name"}

\* validateField(field): the verdict, shown on the field and returned.
ValidateField ==
    /\ UNCHANGED NotField
    /\ ~fldValidated
    /\ fldValidated' = TRUE
    /\ LET verdict == Verdict(fldRequired, fldType, fldName, fldValue)
       IN  /\ fldValid' = verdict[1]
           /\ fldErrorClass' = ~verdict[1]
           /\ fldErrorText' = verdict[2]
    /\ UNCHANGED <<fldRequired, fldType, fldName, fldValue>>

FieldRest ==
    /\ fldValidated = FALSE
    /\ fldValid = TRUE
    /\ fldErrorClass = FALSE
    /\ fldErrorText = ""

FieldIdle ==
    /\ fldRequired = FALSE
    /\ fldType = "text"
    /\ fldName = "name"
    /\ fldValue = <<>>
    /\ FieldRest

FieldInit ==
    /\ fldRequired \in BOOLEAN
    /\ fldType \in FieldTypes
    /\ fldName \in FieldNames
    /\ fldValue \in Values
    /\ FieldRest

FieldNext == ValidateField

(***************************************************************************)
(* BackToTop                                                               *)
(*                                                                         *)
(* The window scrolls between a few positions around the threshold; every  *)
(* change of position sends one 'scroll' event to the throttled listener.  *)
(***************************************************************************)

\* CONFIG.SCROLL.backToTopOffset and CONFIG.TIMING.scrollThrottle
backToTopOffset == 300
scrollThrottle == 16

\* The positions the window scrolls between.
ScrollYs == {0, 100, 300, 301, 600, 900}

\* BackToTop.handleScroll with the window at y: <<'show', aria-hidden>>.
handleScroll(y) ==
    LET shouldShow == y > backToTopOffset
    IN  <<shouldShow, BoolString(~shouldShow)>>

\* A 'scroll' event with the window at y reaches the throttled listener
\* (Utils.throttle): dropped while the flag is set, else handleScroll runs
\* and the flag is set for scrollThrottle ms.
throttledScroll(y) ==
    IF topConstructed /\ topHasButton /\ ~topInThrottle
    THEN /\ showClass' = handleScroll(y)[1]
         /\ topAriaHidden' = handleScroll(y)[2]
         /\ topInThrottle' = TRUE
    ELSE UNCHANGED <<showClass, topAriaHidden, topInThrottle>>

\* new BackToTop(): without the button nothing; else the listeners and an
\* initial handleScroll().
TopConstruct ==
    /\ UNCHANGED NotTop
    /\ ~topConstructed
    /\ topConstructed' = TRUE
    /\ IF topHasButton
       THEN /\ showClass' = handleScroll(scrollY)[1]
            /\ topAriaHidden' = handleScroll(scrollY)[2]
       ELSE UNCHANGED <<showClass, topAriaHidden>>
    /\ topLastOp' = "construct"
    /\ UNCHANGED <<topHasButton, scrollY, topInThrottle, smoothScrolling>>

\* The user scrolls the window to y.
TopScroll(y) ==
    /\ UNCHANGED NotTop
    /\ y # scrollY
    /\ scrollY' = y
    /\ throttledScroll(y)
    /\ smoothScrolling' = FALSE
    /\ topLastOp' = "scroll"
    /\ UNCHANGED <<topConstructed, topHasButton>>

\* The throttle's timer fires.
TopThrottleTimeout ==
    /\ UNCHANGED NotTop
    /\ topInThrottle
    /\ topInThrottle' = FALSE
    /\ topLastOp' = "timeout"
    /\ UNCHANGED <<topConstructed, topHasButton, scrollY, showClass, topAriaHidden,
                   smoothScrolling>>

\* A click, Enter or Space on the button: scrollToTop() starts a smooth
\* scroll to the document's origin.
scrollToTop ==
    /\ UNCHANGED NotTop
    /\ topConstructed /\ topHasButton
    /\ smoothScrolling' = (scrollY # 0)
    /\ topLastOp' = "scrollToTop"
    /\ UNCHANGED <<topConstructed, topHasButton, scrollY, showClass, topAriaHidden,
                   topInThrottle>>

\* The smooth scroll moves the window up to y, ending at 0.
SmoothScrollStep(y) ==
    /\ UNCHANGED NotTop
    /\ smoothScrolling
    /\ y < scrollY
    /\ scrollY' = y
    /\ throttledScroll(y)
    /\ smoothScrolling' = (y # 0)
    /\ topLastOp' = "smoothStep"
    /\ UNCHANGED <<topConstructed, topHasButton>>

TopRest ==
    /\ topConstructed = FALSE
    /\ showClass = FALSE
    /\ topAriaHidden = Null
    /\ topInThrottle = FALSE
    /\ smoothScrolling = FALSE
    /\ topLastOp = "none"

TopIdle ==
    /\ topHasButton = TRUE
    /\ scrollY = 0
    /\ TopRest

TopInit ==
    /\ topHasButton \in BOOLEAN
    /\ scrollY \in ScrollYs
    /\ TopRest

TopNext ==
    \/ TopConstruct
    \/ \E y \in ScrollYs : TopScroll(y)
    \/ TopThrottleTimeout
    \/ scrollToTop
    \/ \E y \in ScrollYs : SmoothScrollStep(y)

(***************************************************************************)
(* NavigationManager: navbar styling and the active link                   *)
(*                                                                         *)
(* The page has three sections, with a gap between the second and the      *)
(* third and nothing after the third, one nav link per section and one     *)
(* link to another page.                                                   *)
(***************************************************************************)

\* CONFIG.SCROLL.navbarOffset and CONFIG.SCROLL.sectionOffset
navbarOffset == 50
sectionOffset == 100

\* document.querySelectorAll('section[id]'), in document order: the id, the
\* top in the document and offsetHeight.
Sections ==
    << [id |-> "home", top |-> 0, height |-> 400],
       [id |-> "about", top |-> 400, height |-> 300],
       [id |-> "contact", top |-> 800, height |-> 300] >>

\* The nav links, by what follows '#' in their href; "blog" is another page.
NavLinks == {"home", "about", "contact", "blog"}

\* The positions the window scrolls between.
PageYs == {0, 51, 299, 300, 600, 700, 1000}

\* sections.forEach(...) from the k-th section on: the last section whose
\* bounds hold scrollPos wins.
RECURSIVE findCurrentSection(_, _, _)
findCurrentSection(scrollPos, k, found) ==
    IF k > Len(Sections) THEN found
    ELSE LET section == Sections[k]
         IN  findCurrentSection(
                 scrollPos, k + 1,
                 IF scrollPos >= section.top /\ scrollPos < section.top + section.height
                 THEN section.id ELSE found)

\* A test that takes every section found for a new one.
sectionChangedAlways(currentSection, previous) == currentSection # Null

\* currentSection && currentSection !== this.activeSection
sectionChanged(currentSection, previous) ==
    currentSection # Null /\ currentSection # previous

LinksState ==
    [activeSection |-> activeSection, linkActive |-> linkActive,
     ariaCurrent |-> ariaCurrent, rewrote |-> rewrote]

\* updateActiveLink() with the window at y.
updateActiveLink(st, y) ==
    LET currentSection == findCurrentSection(y + sectionOffset, 1, Null)
    IN  IF sectionChanged(currentSection, st.activeSection)
        THEN [activeSection |-> currentSection,
              linkActive |-> [l \in NavLinks |-> l = currentSection],
              ariaCurrent |-> [l \in NavLinks |->
                                 IF l = currentSection THEN "page" ELSE "false"],
              rewrote |-> TRUE]
        ELSE [st EXCEPT !.rewrote = FALSE]

SetLinksState(st) ==
    /\ activeSection' = st.activeSection
    /\ linkActive' = st.linkActive
    /\ ariaCurrent' = st.ariaCurrent
    /\ rewrote' = st.rewrote

\* handleNavbarScroll() with the window at y.
handleNavbarScroll(y) ==
    IF hasNavbar THEN navbarScrolled' = (y > navbarOffset) ELSE UNCHANGED navbarScrolled

\* new NavigationManager(): bindEvents registers the throttled scroll
\* listener, then init() calls updateActiveLink().
LinksConstruct ==
    /\ UNCHANGED NotLinks
    /\ ~linksBound
    /\ linksBound' = TRUE
    /\ previousSection' = activeSection
    /\ SetLinksState(updateActiveLink(LinksState, pageY))
    /\ linksLastOp' = "construct"
    /\ UNCHANGED <<hasNavbar, pageY, navbarScrolled, linksInThrottle>>

\* The window scrolls to y and the 'scroll' event reaches the throttled
\* listener (Utils.throttle): dropped while the flag is set, else
\* handleNavbarScroll() and updateActiveLink() run and the flag is set.
PageScroll(y) ==
    /\ UNCHANGED NotLinks
    /\ y # pageY
    /\ pageY' = y
    /\ IF linksBound /\ ~linksInThrottle
       THEN /\ handleNavbarScroll(y)
            /\ previousSection' = activeSection
            /\ SetLinksState(updateActiveLink(LinksState, y))
            /\ linksInThrottle' = TRUE
            /\ linksLastOp' = "tick"
       ELSE /\ linksLastOp' = "dropped"
            /\ UNCHANGED <<navbarScrolled, previousSection, activeSection, linkActive,
                           ariaCurrent, rewrote, linksInThrottle>>
    /\ UNCHANGED <<linksBound, hasNavbar>>

\* The throttle's timer fires.
LinksThrottleTimeout ==
    /\ UNCHANGED NotLinks
    /\ linksInThrottle
    /\ linksInThrottle' = FALSE
    /\ linksLastOp' = "timeout"
    /\ UNCHANGED <<linksBound, hasNavbar, pageY, activeSection, linkActive, ariaCurrent,
                   navbarScrolled, previousSection, rewrote>>

LinksRest ==
    /\ linksBound = FALSE
    /\ activeSection = Null
    /\ linkActive = [l \in NavLinks |-> FALSE]
    /\ ariaCurrent = [l \in NavLinks |-> Null]
    /\ navbarScrolled = FALSE
    /\ linksInThrottle = FALSE
    /\ previousSection = Null
    /\ rewrote = FALSE
    /\ linksLastOp = "none"

LinksIdle ==
    /\ hasNavbar = TRUE
    /\ pageY = 0
    /\ LinksRest

LinksInit ==
    /\ hasNavbar \in BOOLEAN
    /\ pageY \in PageYs
    /\ LinksRest

LinksNext ==
    \/ LinksConstruct
    \/ \E y \in PageYs : PageScroll(y)
    \/ LinksThrottleTimeout

(***************************************************************************)
(* ContactForm.showMessage: the life of each notification                  *)
(*                                                                         *)
(* Every call creates a notification of its own with timers of its own;    *)
(* the notifications alive at one time are told apart by a number.         *)
(***************************************************************************)

\* Notifications alive at one time.
MaxNotifications == 3
Notifications == 1..MaxNotifications

MessageTypes == {"success", "error"}

\* The timers of a notification: 100 ms (animate in), 5000 ms (auto-remove),
\* and 300 ms after that one (removal from the document).
NotificationTimers == {"animateIn", "autoRemove", "detach"}

OffScreen == "translateX(100%)"
OnScreen == "translateX(0)"

\* Number k is unused: no notification carries it.
Unused(k) == ~notifAttached[k] /\ notifTimers[k] = {}

\* A removal that leaves the notification in the document.
removeChildNever(attached) == attached

\* if (notification.parentNode) notification.parentNode.removeChild(notification)
removeChild(attached) == FALSE

\* showMessage(message, type): the notification is created off-screen,
\* appended to the body, and its first two timers are set.
ShowMessage(ty) ==
    /\ UNCHANGED NotToast
    /\ \E k \in Notifications :
          /\ Unused(k)
          /\ \A j \in 1..(k - 1) : ~Unused(j)
          /\ notifAttached' = [notifAttached EXCEPT ![k] = TRUE]
          /\ notifType' = [notifType EXCEPT ![k] = ty]
          /\ notifTransform' = [notifTransform EXCEPT ![k] = OffScreen]
          /\ notifTimers' = [notifTimers EXCEPT ![k] = {"animateIn", "autoRemove"}]

\* The 100 ms timer of notification k.
AnimateIn(k) ==
    /\ "animateIn" \in notifTimers[k]
    /\ notifTransform' = [notifTransform EXCEPT ![k] = OnScreen]
    /\ notifTimers' = [notifTimers EXCEPT ![k] = @ \ {"animateIn"}]
    /\ UNCHANGED <<notifAttached, notifType>>

\* The 5000 ms timer of notification k, which fires after its 100 ms timer.
AutoRemove(k) ==
    /\ "autoRemove" \in notifTimers[k]
    /\ "animateIn" \notin notifTimers[k]
    /\ notifTransform' = [notifTransform EXCEPT ![k] = OffScreen]
    /\ notifTimers' = [notifTimers EXCEPT ![k] = (@ \ {"autoRemove"}) \cup {"detach"}]
    /\ UNCHANGED <<notifAttached, notifType>>

\* The 300 ms timer of notification k.
Detach(k) ==
    /\ "detach" \in notifTimers[k]
    /\ notifAttached' = [notifAttached EXCEPT ![k] = removeChild(@)]
    /\ notifTimers' = [notifTimers EXCEPT ![k] = @ \ {"detach"}]
    /\ notifType' = [notifType EXCEPT ![k] = Null]
    /\ notifTransform' = [notifTransform EXCEPT ![k] = Null]

\* A pending timer of notification k fires.
NotificationTimer(k) ==
    /\ UNCHANGED NotToast
    /\ \/ AnimateIn(k)
       \/ AutoRemove(k)
       \/ Detach(k)

ToastRest ==
    /\ notifAttached = [k \in Notifications |-> FALSE]
    /\ notifType = [k \in Notifications |-> Null]
    /\ notifTransform = [k \in Notifications |-> Null]
    /\ notifTimers = [k \in Notifications |-> {}]

ToastIdle == ToastRest

ToastInit == ToastRest

ToastNext ==
    \/ \E ty \in MessageTypes : ShowMessage(ty)
    \/ \E k \in Notifications : NotificationTimer(k)

(***************************************************************************)
(* Specifications                                                          *)
(***************************************************************************)

InitTheme ==
    ThemeInit /\ RevealIdle /\ TypingIdle /\ FormIdle /\ LazyIdle /\ AppIdle
    /\ NavIdle /\ CounterIdle /\ FieldIdle /\ TopIdle /\ LinksIdle /\ ToastIdle

SpecTheme == InitTheme /\ [][ThemeNext]_vars

InitReveal ==
    RevealInit /\ ThemeIdle /\ TypingIdle /\ FormIdle /\ LazyIdle /\ AppIdle
    /\ NavIdle /\ CounterIdle /\ FieldIdle /\ TopIdle /\ LinksIdle /\ ToastIdle

SpecReveal == InitReveal /\ [][RevealNext]_vars

InitTyping ==
    TypingInit /\ ThemeIdle /\ RevealIdle /\ FormIdle /\ LazyIdle /\ AppIdle
    /\ NavIdle /\ CounterIdle /\ FieldIdle /\ TopIdle /\ LinksIdle /\ ToastIdle

SpecTyping == InitTyping /\ [][TypingNext]_vars

InitForm ==
    FormInit /\ ThemeIdle /\ RevealIdle /\ TypingIdle /\ LazyIdle /\ AppIdle
    /\ NavIdle /\ CounterIdle /\ FieldIdle /\ TopIdle /\ LinksIdle /\ ToastIdle

SpecForm == InitForm /\ [][FormNext]_vars

\* setTimeout callbacks run: the 1500 ms timer of every simulated submission
\* fires, and so do the timers of the notifications.
FairSpecForm ==
    /\ SpecForm
    /\ WF_vars(\E o \in Outcomes : Settle(o))
    /\ WF_vars(ToastTimer)

InitLazy ==
    LazyInit /\ ThemeIdle /\ RevealIdle /\ TypingIdle /\ FormIdle /\ AppIdle
    /\ NavIdle /\ CounterIdle /\ FieldIdle /\ TopIdle /\ LinksIdle /\ ToastIdle

SpecLazy == InitLazy /\ [][LazyNext]_vars

InitApp ==
    AppInit /\ ThemeIdle /\ RevealIdle /\ TypingIdle /\ FormIdle /\ LazyIdle
    /\ NavIdle /\ CounterIdle /\ FieldIdle /\ TopIdle /\ LinksIdle /\ ToastIdle

SpecApp == InitApp /\ [][AppNext]_vars

InitNav ==
    NavInit /\ ThemeIdle /\ RevealIdle /\ TypingIdle /\ FormIdle /\ LazyIdle
    /\ AppIdle /\ CounterIdle /\ FieldIdle /\ TopIdle /\ LinksIdle /\ ToastIdle

SpecNav == InitNav /\ [][NavNext]_vars

InitCounter ==
    CounterInit /\ ThemeIdle /\ RevealIdle /\ TypingIdle /\ FormIdle /\ LazyIdle
    /\ AppIdle /\ NavIdle /\ FieldIdle /\ TopIdle /\ LinksIdle /\ ToastIdle

SpecCounter == InitCounter /\ [][CounterNext]_vars

InitField ==
    FieldInit /\ ThemeIdle /\ RevealIdle /\ TypingIdle /\ FormIdle /\ LazyIdle
    /\ AppIdle /\ NavIdle /\ CounterIdle /\ TopIdle /\ LinksIdle /\ ToastIdle

SpecField == InitField /\ [][FieldNext]_vars

InitTop ==
    TopInit /\ ThemeIdle /\ RevealIdle /\ TypingIdle /\ FormIdle /\ LazyIdle
    /\ AppIdle /\ NavIdle /\ CounterIdle /\ FieldIdle /\ LinksIdle /\ ToastIdle

SpecTop == InitTop /\ [][TopNext]_vars

InitLinks ==
    LinksInit /\ ThemeIdle /\ RevealIdle /\ TypingIdle /\ FormIdle /\ LazyIdle
    /\ AppIdle /\ NavIdle /\ CounterIdle /\ FieldIdle /\ TopIdle /\ ToastIdle

SpecLinks == InitLinks /\ [][LinksNext]_vars

InitToast ==
    ToastInit /\ ThemeIdle /\ RevealIdle /\ TypingIdle /\ FormIdle /\ LazyIdle
    /\ AppIdle /\ NavIdle /\ CounterIdle /\ FieldIdle /\ TopIdle /\ LinksIdle

SpecToast == InitToast /\ [][ToastNext]_vars

\* The whole page: every controller from its own initial states, any
\* controller taking the next step.
Init ==
    ThemeInit /\ RevealInit /\ TypingInit /\ FormInit /\ LazyInit /\ AppInit
    /\ NavInit /\ CounterInit /\ FieldInit /\ TopInit /\ LinksInit /\ ToastInit

Next ==
    \/ ThemeNext
    \/ RevealNext
    \/ TypingNext
    \/ FormNext
    \/ LazyNext
    \/ AppNext
    \/ NavNext
    \/ CounterNext
    \/ FieldNext
    \/ TopNext
    \/ LinksNext
    \/ ToastNext

Spec == Init /\ [][Next]_vars

\* setTimeout callbacks run: the debounce timeout of the resize handler fires.
FairSpecNav == SpecNav /\ WF_vars(ResizeTimeout)

\* requestAnimationFrame callbacks run.
FairSpecCounter == SpecCounter /\ WF_vars(CounterFrame)

\* A timer that has been set fires.
FairSpecToast == SpecToast /\ \A k \in Notifications : WF_vars(NotificationTimer(k))

(***************************************************************************)
(* ThemeManager: properties                                                *)
(***************************************************************************)

\* C2: while the user has never made an explicit choice (key absent at first
\* load, no toggle since), an OS colour-scheme change delivered to a
\* constructed ThemeManager makes currentTheme and data-theme the new OS value.
C2_SystemChangeFollowed ==
    [][(themeConstructed /\ ~everExplicit /\ systemDark' # systemDark)
         => (/\ currentTheme' = SystemThemeOf(systemDark')
             /\ dataTheme' = SystemThemeOf(systemDark'))]_vars

\* C3: once the user has toggled, no OS colour-scheme change alters
\* currentTheme, data-theme or the stored value.
C3_ExplicitChoiceOverridesSystem ==
    [][(userToggled /\ systemDark' # systemDark)
         => UNCHANGED <<currentTheme, dataTheme, storedTheme>>]_vars

\* An OS change has just been delivered, after a toggle, to a page whose theme
\* differs from the new OS value.
C3_Witness ==
    /\ userToggled
    /\ themeConstructed
    /\ themeLastOp = "oschange"
    /\ currentTheme # getSystemTheme

\* C4: whenever setTheme or toggleTheme has returned, the stored value, the
\* data-theme attribute and currentTheme are equal; and a ThemeManager
\* constructed afterwards (a reload) resolves to the theme last applied,
\* whatever the OS signal is then.
C4_ThemeAgreesAndSurvivesReload ==
    [][/\ themeConstructed' => (storedTheme' = currentTheme' /\ dataTheme' = currentTheme')
       /\ (~themeConstructed /\ themeConstructed' /\ lastApplied # Null)
            => currentTheme' = lastApplied]_vars

\* A ThemeManager was constructed after a toggle and a reload, under an OS
\* signal that disagrees with the theme it resolved to.
C4_Witness ==
    /\ userToggled
    /\ themeLastOp = "construct"
    /\ currentTheme # getSystemTheme
    /\ storedTheme = currentTheme

\* C20: the persisted theme key changes only in an explicit user toggle or
\* in an OS colour-scheme change that arrives while no explicit choice is
\* stored; startup only reads it and nothing deletes it.
C20_KeyWrittenOnlyByToggleOrSystem ==
    [][storedTheme' # storedTheme =>
          /\ storedTheme' # Null
          /\ \/ toggleTheme
             \/ (SystemThemeChange /\ ~Truthy(storedTheme))]_vars

(***************************************************************************)
(* Reveal-on-scroll controllers: properties                                *)
(***************************************************************************)

\* C1: for each of the three controllers and every element, the animation
\* function is applied at most once, however many visibility events or
\* in-view scroll ticks are delivered, under the observer and the fallback.
C1_AnimatesAtMostOnce == \A e \in Elems : applied[e] <= 1

\* C17: the scroll-polling fallback fires as the observing strategy does:
\* a controller that polls (no IntersectionObserver, listener registered)
\* has called the animation of each element at most once.
C17_FallbackFiresOnce ==
    (~hasIO /\ listening) => \A e \in Elems : applied[e] < 2

(***************************************************************************)
(* TypingAnimation: properties                                             *)
(***************************************************************************)

\* C5: while the page stays hidden (the typing effect paused by the
\* visibility hook) no tick runs: the displayed text, the phrase index, the
\* character index and the deleting flag do not change.
C5_NoTickWhileHidden ==
    [][(typingConstructed /\ pageHidden /\ pageHidden')
         => UNCHANGED <<textContent, currentTextIndex, currentCharIndex, isDeleting>>]_vars

\* What the k-th type() displays, from the phrase list alone: the cycle runs
\* through the phrases in order, each contributing its prefixes of length
\* 1..n and then n-1..0.
RECURSIVE CycleLen(_)
CycleLen(ts) == IF ts = <<>> THEN 0 ELSE 2 * Len(Head(ts)) + CycleLen(Tail(ts))

RECURSIVE DisplayAt(_, _)
DisplayAt(ts, pos) ==
    LET n == Len(Head(ts))
    IN  IF pos < 2 * n
        THEN SubSeq(Head(ts), 1, IF pos < n THEN pos + 1 ELSE 2 * n - pos - 1)
        ELSE DisplayAt(Tail(ts), pos - 2 * n)

Expected(ts, k) == DisplayAt(ts, (k - 1) % CycleLen(ts))

GoJSDisplayed ==
    << <<"G">>, <<"G", "o">>, <<"G">>, <<>>, <<"J">>, <<"J", "S">>, <<"J">>, <<>> >>

\* C6: with reduced motion off and non-empty phrases, the displayed texts are,
\* phrase after phrase in cyclic order, the prefixes of growing length up to
\* the phrase, then (the full phrase being followed by the pause interval) the
\* prefixes of shrinking length down to the empty text; for ["Go","JS"] that
\* is "G","Go","G","","J","JS","J","" and again from "G".
C6_TypingSequence ==
    (~typingReduced /\ \A i \in 1..Len(texts) : texts[i] # <<>>) =>
        /\ \A k \in 1..Len(shown) : shown[k] = Expected(texts, k)
        /\ (texts = GoJS) =>
              \A k \in 1..Len(shown) : shown[k] = GoJSDisplayed[((k - 1) % 8) + 1]
        /\ (typeTimer /\ isDeleting /\ textContent = texts[currentTextIndex + 1])
              => typeDelay = typingPause

\* The effect has gone once through ["Go","JS"] and started over.
C6_Witness ==
    /\ ~typingReduced
    /\ texts = GoJS
    /\ Len(shown) >= 9
    /\ shown[9] = <<"G">>

\* C23: for every phrase list, a single phrase and an empty phrase
\* included, currentCharIndex stays within 0..length of the current phrase
\* and currentTextIndex within 0..number of phrases - 1.
C23_IndicesInRange ==
    (typingConstructed /\ ~typingReduced) =>
        /\ 0 <= currentTextIndex
        /\ currentTextIndex < Len(texts)
        /\ 0 <= currentCharIndex
        /\ currentCharIndex <= Len(texts[currentTextIndex + 1])

\* C14: when the reduced-motion signal is present at start, the typing
\* effect writes the first phrase (no type() run ever writes) and schedules
\* no tick, so the text shown is the first phrase in every later state.
C14_ReducedMotionStatic ==
    (typingReduced /\ typingConstructed) =>
        /\ textContent = texts[1]
        /\ ~typeTimer
        /\ shown = <<>>

C14_Witness ==
    /\ typingReduced
    /\ typingConstructed
    /\ pageHidden
    /\ textContent = GoJS[1]

(***************************************************************************)
(* ContactForm: properties                                                 *)
(***************************************************************************)

LoadingCleared == ~btnDisabled /\ ~btnLoading /\ btnTextOpacity = "1"

\* C7: whenever a simulated submission settles (resolved, rejected, or an
\* exception thrown in the success path), the loading state is cleared: the
\* button enabled, 'loading' removed, the label visible; and a disabled
\* button is always enabled again.
C7_LoadingAlwaysCleared ==
    /\ [][pending' < pending => LoadingCleared']_vars
    /\ (btnDisabled ~> ~btnDisabled)

\* A submission that threw in its success path has settled and the button is
\* usable again.
C7_Witness ==
    /\ formLastOp \in {"throwShow", "throwReset", "throwClear", "throwTwice"}
    /\ LoadingCleared
    /\ pending = 0

\* C8: on submit every required field is validated again; if one fails, the
\* submission is aborted: no loading state, no simulated submission, the
\* failing fields carry their inline error and an error message is shown.
C8_InvalidSubmitAborts ==
    [][(handleSubmit /\ \E f \in Fields : FieldRequired(f) /\ ~validateField(f, fieldValue[f]))
         => /\ pending' = pending
            /\ UNCHANGED <<btnDisabled, btnLoading, btnTextOpacity>>
            /\ \A f \in Fields : FieldRequired(f) =>
                  /\ fieldError'[f] = ~validateField(f, fieldValue[f])
                  /\ (fieldError'[f] => errorText'[f] # "")
            /\ lastMessage' = "error"
            /\ formLastOp' = "abort"]_vars

\* A submit was aborted with one required field blank after trimming and the
\* other one valid.
C8_Witness ==
    /\ formLastOp = "abort"
    /\ fieldValue["message"] = <<" ">>
    /\ fieldError["message"]
    /\ errorText["message"] = "This field is required"
    /\ ~fieldError["email"]
    /\ fieldValue["email"] = <<"a", "@", "b", ".", "c">>
    /\ pending = 0
    /\ ~btnDisabled

\* C18: a simulated submission is started only when every input and
\* textarea of the form, required or not, passes validateField.
C18_SubmitOnlyWhenAllValid ==
    formLastOp = "start" => \A f \in Fields : validateField(f, fieldValue[f])

(***************************************************************************)
(* LazyLoader: properties                                                  *)
(***************************************************************************)

ToBuild == Listed \cup (IF typingElement THEN {"typingAnimation"} ELSE {})

\* C10: after an init() in which constructors of components threw (the DOM
\* cache did not), each of them is logged and skipped, every other component
\* is constructed and registered, and the global event hooks are installed.
C10_ConstructionFailuresIsolated ==
    (initRuns > 0 /\ "domCache" \notin lastThrown) =>
        /\ \A c \in ToBuild \cap lastThrown : c \in warned /\ c \notin lastRegistered
        /\ \A c \in ToBuild \ lastThrown : c \in lastRegistered /\ c \in components
        /\ hooksInstalled >= 1

(***************************************************************************)
(* NavigationManager: properties                                           *)
(***************************************************************************)

MenuClosed ==
    /\ ~isMenuOpen
    /\ ~menuActive
    /\ ~toggleActive
    /\ ariaExpanded = "false"
    /\ ariaHidden = "true"
    /\ bodyOverflow = ""
    /\ focusOn = "navToggle"

\* C11: an Escape key press, or a click outside the menu and the toggle,
\* closes the mobile menu when it is open and changes neither isMenuOpen nor
\* any class, ARIA attribute, body overflow or focus when it is closed.
C11_EscapeAndOutsideClick ==
    [][(EscapeKey \/ OutsideClick) =>
          IF isMenuOpen THEN MenuClosed' ELSE UNCHANGED menuVars]_vars

C11_Witness ==
    /\ navLastOp \in {"escape", "outside"}
    /\ wasOpen
    /\ MenuClosed

\* C12 as stated: whenever a resize event takes the viewport across the
\* mobile breakpoint while the menu is open, the menu becomes closed.
C12_CrossingCloses == (crossedOpen /\ isMenuOpen) ~> ~isMenuOpen

\* C12: when the debounce timeout fires with the menu open and the window
\* wider than the mobile breakpoint, the menu is closed; so an open menu and a
\* pending timeout in a window wider than the breakpoint lead to the menu
\* closed or the window back at mobile width.
C12_SettledWideCloses ==
    /\ [][(ResizeTimeout /\ isMenuOpen /\ innerWidth > mobile) => MenuClosed']_vars
    /\ (isMenuOpen /\ resizeTimer /\ innerWidth > mobile)
          ~> (~isMenuOpen \/ innerWidth <= mobile)

C12_Witness ==
    /\ navLastOp = "resizeTimeout"
    /\ wasOpen
    /\ innerWidth > mobile
    /\ MenuClosed

\* C16: a click on a section link with the menu open schedules the smooth
\* scroll with the 300 ms delay, and with the menu closed with none.
C16_ScrollWaitsForMenu ==
    navLastOp = "navClick" =>
        lastScrollDelay = (IF wasOpen THEN menuCloseDelay ELSE 0)

(***************************************************************************)
(* StatsCounter.animateCounter: properties                                 *)
(***************************************************************************)

CounterDone == counterStarted /\ ~rafPending

\* C13: for every non-negative integer target animateCounter stops after at
\* most 100 runs of updateCounter, showing exactly the target; with target 0
\* it stops in its first run showing 0, and with target 250 it ends at 250.
C13_CounterTerminatesAtTarget ==
    /\ [](frames <= 100)
    /\ [](rafPending => frames < 100)
    /\ [](CounterDone => counterText = dataCount /\ current = parseInt(dataCount))
    /\ []((counterStarted /\ dataCount = <<"0">>) =>
              CounterDone /\ frames = 1 /\ counterText = <<"0">>)
    /\ []((CounterDone /\ dataCount = <<"2", "5", "0">>) =>
              counterText = <<"2", "5", "0">>)
    /\ (counterStarted ~> CounterDone)

C13_Witness ==
    /\ CounterDone
    /\ dataCount = <<"2", "5", "0">>
    /\ counterText = <<"2", "5", "0">>
    /\ frames > 1

(***************************************************************************)
(* ContactForm.validateField: properties                                   *)
(***************************************************************************)

Trimmed == trim(fldValue)

RequiredRule == fldRequired => Trimmed # <<>>

\* local@domain.tld: one '@', no whitespace, something before the '@', and
\* after it a '.' with something on both sides.
EmailShaped(v) ==
    /\ Cardinality({k \in 1..Len(v) : v[k] = "@"}) = 1
    /\ \A k \in 1..Len(v) : v[k] \notin Whitespace
    /\ LET at == CHOOSE k \in 1..Len(v) : v[k] = "@"
       IN  /\ at > 1
           /\ \E dot \in (at + 2)..(Len(v) - 1) : v[dot] = "."

\* Digits, blanks (the pattern's \s: a space or any other whitespace
\* character) and the symbols + - ( ) only.
OnlyPhoneChars(v) ==
    \A k \in 1..Len(v) : v[k] \in Digits \cup Whitespace \cup {"+", "-", "(", ")"}

EmailRule == (fldType = "email" /\ Trimmed # <<>>) => EmailShaped(Trimmed)

PhoneRule == (fldName = "phone" /\ Trimmed # <<>>) => OnlyPhoneChars(Trimmed)

ExamplesHold ==
    /\ (fldValue = UserAtExample /\ fldType = "email" /\ fldName # "phone") => fldValid
    /\ (fldValue = PhoneAbc /\ fldName = "phone") => ~fldValid
    /\ (fldValue = PhoneWithSymbols /\ fldName = "phone" /\ fldType # "email") => fldValid

\* C15: validateField accepts a field exactly when every rule that applies
\* to it holds: required and non-empty after trimming; email-typed and
\* non-empty, shaped local@domain; named 'phone' and non-empty, made of
\* digits, blanks and + - ( ) only.  The class 'error' and the message follow
\* the verdict.  'user@example.com' passes as an email, 'abc' fails as a
\* phone and '+1 (555) 123-4567' passes as one.
C15_AcceptsExactlyWhenAllRulesHold ==
    fldValidated =>
        /\ fldValid <=> (RequiredRule /\ EmailRule /\ PhoneRule)
        /\ fldErrorClass = ~fldValid
        /\ (fldErrorText = "") = fldValid
        /\ ExamplesHold

C15_Witness ==
    /\ fldValidated
    /\ fldValue = PhoneWithSymbols
    /\ fldName = "phone"
    /\ fldType = "text"
    /\ fldValid

(***************************************************************************)
(* BackToTop: properties                                                   *)
(***************************************************************************)

\* C19: the back-to-top button carries 'show' exactly while the scroll
\* position exceeds the 300 px threshold, in every state any sequence of
\* scroll events reaches.
C19_ShownExactlyPastThreshold ==
    (topConstructed /\ topHasButton) => (showClass <=> scrollY > backToTopOffset)

\* C21: after any sequence of init() calls, one that follows a failed
\* initialization included, the element cache has been built and every
\* component constructed at most once.
C21_InitializedAtMostOnce ==
    /\ cacheBuilt <= 1
    /\ \A name \in DOMAIN built : built[name] <= 1

\* C22: in every reachable state the submit control is disabled and marked
\* loading if and only if at least one simulated submission is pending.
C22_LoadingIffPending ==
    (btnDisabled /\ btnLoading) <=> (pending > 0)

(***************************************************************************)
(* NavigationManager's active link: properties                             *)
(***************************************************************************)

\* The sections whose bounds [top, top + height) hold the point y + 100.
Holding(y) ==
    {k \in 1..Len(Sections) :
        /\ Sections[k].top <= y + sectionOffset
        /\ y + sectionOffset < Sections[k].top + Sections[k].height}

LinksShow(id) ==
    /\ linkActive = [l \in NavLinks |-> l = id]
    /\ ariaCurrent = [l \in NavLinks |-> IF l = id THEN "page" ELSE "false"]

\* C24 as stated: on every handled scroll tick the active-section pointer
\* becomes the result of the search, the id of the section whose bounds
\* [top, top + height) hold scrollY + 100, and the links are rewritten exactly
\* when that result differs from the pointer's previous value.
C24_PointerFollowsEveryTick ==
    linksLastOp = "tick" =>
        LET result == IF Holding(pageY) = {} THEN Null
                      ELSE Sections[CHOOSE k \in Holding(pageY) : TRUE].id
        IN  /\ activeSection = result
            /\ rewrote <=> (result # previousSection)

\* C24: on a handled scroll tick where some section's bounds
\* [top, top + height) hold scrollY + 100, the active-section pointer becomes
\* that section's id and the links' 'active' class and aria-current are
\* rewritten exactly when that id differs from the pointer's previous value;
\* on a handled tick where no section holds the point, the pointer and the
\* links stay as they were.
C24_ActiveSectionFollowsScroll ==
    linksLastOp = "tick" =>
        IF Holding(pageY) # {}
        THEN LET id == Sections[CHOOSE k \in Holding(pageY) : TRUE].id
             IN  /\ activeSection = id
                 /\ rewrote <=> (id # previousSection)
                 /\ LinksShow(id)
        ELSE /\ activeSection = previousSection
             /\ ~rewrote

C24_Witness ==
    /\ linksLastOp = "tick"
    /\ pageY = 300
    /\ previousSection = "home"
    /\ activeSection = "about"
    /\ rewrote
    /\ LinksShow("about")

\* C25: a single click on the menu toggle flips the menu state exactly once,
\* whether the menu was open or closed: the toggle's click listener and the
\* document's click listener, both run for that click, together neither
\* leave the state as it was nor flip it twice.
C25_ToggleClickFlipsOnce ==
    navLastOp = "toggle" =>
        /\ isMenuOpen = ~wasOpen
        /\ menuActive = isMenuOpen
        /\ toggleActive = isMenuOpen

C25_Witness ==
    /\ navLastOp = "toggle"
    /\ ~wasOpen
    /\ isMenuOpen
    /\ menuActive

\* C26: when the simulated submission resolves, a success message is shown,
\* every field is back to its default value and no field carries the error
\* class or an error text; when it rejects, an error message is shown and the
\* fields' values, error classes and error texts are left as they were.
C26_ResolveResetsRejectKeeps ==
    [][/\ Settle("resolve") =>
            /\ lastMessage' = "success"
            /\ \A f \in Fields :
                   fieldValue'[f] = <<>> /\ ~fieldError'[f] /\ errorText'[f] = ""
       /\ Settle("reject") =>
            /\ lastMessage' = "error"
            /\ UNCHANGED <<fieldValue, fieldError, errorText>>]_vars

C26_Witness ==
    /\ formLastOp = "resolve"
    /\ lastMessage = "success"
    /\ pending = 0
    /\ \A f \in Fields : fieldValue[f] = <<>> /\ ~fieldError[f] /\ errorText[f] = ""

\* C27: an image whose loading has failed carries the class 'error', keeps
\* data-src and never has the real source assigned, and it is no longer
\* observed, so that nothing the observer reports afterwards starts another
\* load of it.
C27_FailedImageLeftAlone ==
    \A i \in errorClass :
        /\ i \in dataSrc
        /\ i \notin srcAssigned
        /\ i \notin lazyObserved

\* The menu's classes, attributes and the body's overflow state isMenuOpen;
\* aria-expanded and aria-hidden are as authored until the first toggle.
MenuAgrees ==
    /\ (bodyOverflow = "hidden") <=> isMenuOpen
    /\ menuActive = isMenuOpen
    /\ toggleActive = isMenuOpen
    /\ ariaExpanded = IF isMenuOpen THEN "true"
                      ELSE IF ariaExpanded = Null THEN Null ELSE "false"
    /\ ariaHidden = IF isMenuOpen THEN "false"
                    ELSE IF ariaHidden = Null THEN Null ELSE "true"

\* C28: in every reachable state the body's overflow is 'hidden' exactly when
\* the menu is open, and the 'active' classes, aria-expanded and aria-hidden
\* (once written) agree with isMenuOpen; every transition to open moves the
\* focus to the menu and every transition to closed moves it to the toggle.
C28_MenuStateConsistent ==
    /\ []MenuAgrees
    /\ [][/\ (~isMenuOpen /\ isMenuOpen') => focusOn' = "navMenu"
          /\ (isMenuOpen /\ ~isMenuOpen') =>
                (focusOn' = "navToggle" /\ ariaExpanded' = "false" /\ ariaHidden' = "true")]_vars

C28_Witness ==
    /\ isMenuOpen
    /\ bodyOverflow = "hidden"
    /\ focusOn = "navMenu"
    /\ ariaExpanded = "true"
    /\ ariaHidden = "false"

\* C29: whatever string the key held when the page was opened, once the
\* ThemeManager is constructed currentTheme, the data-theme attribute and the
\* stored key are each 'light' or 'dark'.
C29_ThemeIsLightOrDark ==
    themeConstructed =>
        /\ currentTheme \in {"light", "dark"}
        /\ dataTheme \in {"light", "dark"}
        /\ storedTheme \in {"light", "dark"}

\* C30: with the reduced-motion signal present at construction,
\* ScrollAnimations, StatsCounter and SkillBars register no observer and no
\* scroll listener and never touch a target: no element gets the class
\* 'animated', a counter update or a width, and no deferred step is scheduled,
\* however the page is scrolled afterwards.
C30_ReducedMotionRegistersNothing ==
    reducedMotion =>
        /\ ioObserved = {}
        /\ ioQueue = <<>>
        /\ ~listening
        /\ \A e \in Elems : applied[e] = 0 /\ timers[e] = 0
        /\ marked = {}
        /\ deferredDone = {}
        /\ animatedSet = {}

C30_Witness ==
    /\ reducedMotion
    /\ revealConstructed
    /\ \A e \in Elems : intersecting[e] /\ applied[e] = 0
    /\ ~listening
    /\ ioObserved = {}

(***************************************************************************)
(* ContactForm.showMessage: properties                                     *)
(***************************************************************************)

\* C31: every notification showMessage creates slides in, later slides out
\* and is then removed from the document, however many notifications
\* overlap: none stays in the document forever.
C31_EveryToastRemoved ==
    \A k \in Notifications :
        /\ ("animateIn" \in notifTimers[k])
              ~> (notifAttached[k] /\ notifTransform[k] = OnScreen)
        /\ (notifTransform[k] = OnScreen)
              ~> (notifAttached[k] /\ notifTransform[k] = OffScreen
                    /\ notifTimers[k] = {"detach"})
        /\ notifAttached[k] ~> ~notifAttached[k]

\* A notification has been removed while a later one is still shown: numbers
\* are given out lowest first, so an unused number below one in use has been
\* used and given back.
C31_Witness ==
    \E j, k \in Notifications :
        /\ k < j
        /\ Unused(k)
        /\ ~notifAttached[k]
        /\ notifAttached[j]
        /\ notifTransform[j] = OnScreen

====
